---- MODULE Spec2Model ----
(***************************************************************************)
(* Request-rewrite pipeline of the Loom proxy (greatloom.alpha and the     *)
(* metadata extractors of loom / greatloom).                               *)
(*                                                                         *)
(* Text model.  A Python str is a sequence of tokens; a token is an        *)
(* indivisible run of characters (a word, a run of whitespace, one of the  *)
(* literal signatures of the code, or the serialisation of one JSON        *)
(* object).  Substring search, slicing, strip and replace act on token     *)
(* sequences exactly as the str methods act on characters.                 *)
(***************************************************************************)
EXTENDS Integers, Sequences, FiniteSets, TLC

VARIABLES
    pc,             \* position of the request inside the handler / harness
    fn,             \* which operation the run is about
    headers,        \* the request headers
    body,           \* the request body, mutated in place by the components
    body0,          \* the body as it came in
    body1,          \* the body after the first application (pure-function runs)
    metadata,       \* metadata known so far: <<>> is None, <<m>> is the dict m
    store,          \* what the back-ends hold during the request
    fetched,        \* state of the three gathered fetches
    system_blocks,  \* the system blocks built by AlphaPattern.request
    order,          \* the steps of the request in the order they completed
    http,           \* the HTTP request inside handle_request
    watch,          \* loom/watcher.py: the registry, the watcher tasks and the transcript
    trace_manager   \* loom/traces.py: the TraceManager, its spans, the requests using it

vars == <<pc, fn, headers, body, body0, body1, metadata, store, fetched, system_blocks, order, http, watch,
          trace_manager>>

-----------------------------------------------------------------------------
(* Bounds of the model *)

MaxMsgs == 2

-----------------------------------------------------------------------------
(* str operations *)

Ws == {"ws", "nn", "n"}

StartsAt(t, p, i) ==
    /\ i >= 1
    /\ i + Len(p) - 1 <= Len(t)
    /\ SubSeq(t, i, i + Len(p) - 1) = p

\* str.find, 1-based; 0 when absent
Find(t, p) ==
    IF \E i \in 1..Len(t) : StartsAt(t, p, i)
    THEN CHOOSE i \in 1..Len(t) :
            StartsAt(t, p, i) /\ \A j \in 1..(i - 1) : ~StartsAt(t, p, j)
    ELSE 0

\* p in t
In(p, t) == Find(t, p) # 0

RECURSIVE Replace(_, _, _)
\* str.replace: every non-overlapping occurrence, left to right
Replace(t, p, r) ==
    LET i == Find(t, p) IN
    IF i = 0 THEN t
    ELSE SubSeq(t, 1, i - 1) \o r \o Replace(SubSeq(t, i + Len(p), Len(t)), p, r)

RECURSIVE RStrip(_)
RStrip(t) ==
    IF t # <<>> /\ t[Len(t)] \in Ws THEN RStrip(SubSeq(t, 1, Len(t) - 1)) ELSE t

RECURSIVE LStrip(_)
LStrip(t) ==
    IF t # <<>> /\ t[1] \in Ws THEN LStrip(Tail(t)) ELSE t

Strip(t) == LStrip(RStrip(t))

\* index of the first element of s satisfying P, 0 when there is none
FirstIdx(s, P(_)) ==
    IF \E i \in 1..Len(s) : P(s[i])
    THEN CHOOSE i \in 1..Len(s) : P(s[i]) /\ \A j \in 1..(i - 1) : ~P(s[j])
    ELSE 0

\* index of the last element of s satisfying P, 0 when there is none
LastIdx(s, P(_)) ==
    IF \E i \in 1..Len(s) : P(s[i])
    THEN CHOOSE i \in 1..Len(s) : P(s[i]) /\ \A j \in (i + 1)..Len(s) : ~P(s[j])
    ELSE 0

-----------------------------------------------------------------------------
(* Request data *)

\* a content block; nkind/ntexts is the nested content of a tool_result
TextBlock(t) == [type |-> "text", text |-> t, cc |-> FALSE, nkind |-> "none", ntexts |-> <<>>]
ToolResult(k, ts) == [type |-> "tool_result", text |-> <<>>, cc |-> FALSE, nkind |-> k, ntexts |-> ts]
ToolUse == [type |-> "tool_use", text |-> <<>>, cc |-> FALSE, nkind |-> "none", ntexts |-> <<>>]

StrMsg(r, t) == [role |-> r, ckind |-> "str", text |-> t, blocks |-> <<>>]
ListMsg(r, bs) == [role |-> r, ckind |-> "list", text |-> <<>>, blocks |-> bs]

NoSystem == [kind |-> "none", text |-> <<>>, blocks |-> <<>>]
StrSystem(t) == [kind |-> "str", text |-> t, blocks |-> <<>>]
ListSystem(bs) == [kind |-> "list", text |-> <<>>, blocks |-> bs]

IsUser(m) == m.role = "user"
IsText(b) == b.type = "text"

-----------------------------------------------------------------------------
(* greatloom/alpha/compact.py *)

ALPHA_COMPACT_SYSTEM == <<"ALPHA_COMPACT_SYSTEM">>
AUTO_COMPACT_SYSTEM_SIGNATURE == <<"S1">>
COMPACT_INSTRUCTIONS_START == <<"S2">>

\* ". Continue with the last task that you were asked to work on." is the
\* common tail of the SDK sentence and of the polluted variant
CONTINUATION_INSTRUCTION_ORIGINAL == <<"SDK_CONTINUE_HEAD", "CONTINUE_TAIL">>
CONTINUATION_INSTRUCTION_POLLUTED == <<"ALPHA_PAUSE", "CONTINUE_TAIL">>
CONTINUATION_INSTRUCTION_ALPHA == <<"ALPHA_PAUSE">>
FALLBACK_COMPACT_PROMPT == <<"FALLBACK">>

HasSignature(b) == IsText(b) /\ In(AUTO_COMPACT_SYSTEM_SIGNATURE, b.text)

_detect_auto_compact(system) ==
    CASE system.kind = "str" -> In(AUTO_COMPACT_SYSTEM_SIGNATURE, system.text)
      [] system.kind = "list" -> \E i \in 1..Len(system.blocks) : HasSignature(system.blocks[i])
      [] OTHER -> FALSE

FirstSignatureOnly(blocks) ==
    LET i == FirstIdx(blocks, HasSignature) IN
    IF i = 0 THEN blocks
    ELSE [blocks EXCEPT ![i].text = ALPHA_COMPACT_SYSTEM]

_replace_system_prompt(system) ==
    CASE system.kind = "str" ->
            IF In(AUTO_COMPACT_SYSTEM_SIGNATURE, system.text)
            THEN [system EXCEPT !.text = ALPHA_COMPACT_SYSTEM]
            ELSE system
      [] system.kind = "list" ->
            [system EXCEPT !.blocks = FirstSignatureOnly(system.blocks)]
      [] OTHER -> system

\* text[:idx].rstrip() + "\n\n" + compact_prompt
CutAtInstructions(text, compact_prompt) ==
    LET idx == Find(text, COMPACT_INSTRUCTIONS_START) IN
    RStrip(SubSeq(text, 1, idx - 1)) \o <<"nn">> \o compact_prompt

HasInstructions(b) == IsText(b) /\ In(COMPACT_INSTRUCTIONS_START, b.text)

\* scans every user message instead of the last one
ReplaceInEveryUserMessage(messages, compact) ==
    LET compact_prompt == IF compact = <<>> THEN FALLBACK_COMPACT_PROMPT ELSE compact[1]
        One(m) ==
            IF ~IsUser(m) THEN m
            ELSE IF m.ckind = "str"
            THEN IF In(COMPACT_INSTRUCTIONS_START, m.text)
                 THEN [m EXCEPT !.text = CutAtInstructions(@, compact_prompt)] ELSE m
            ELSE LET b == FirstIdx(m.blocks, HasInstructions) IN
                 IF b = 0 THEN m
                 ELSE [m EXCEPT !.blocks[b].text = CutAtInstructions(@, compact_prompt)]
    IN [i \in 1..Len(messages) |-> One(messages[i])]

\* compact is soul.get_compact(): <<>> is None, <<doc>> the loaded document
_replace_compact_instructions(messages, compact) ==
    LET compact_prompt == IF compact = <<>> THEN FALLBACK_COMPACT_PROMPT ELSE compact[1]
        m == LastIdx(messages, IsUser)
    IN
    IF m = 0 THEN messages
    ELSE IF messages[m].ckind = "str"
    THEN IF In(COMPACT_INSTRUCTIONS_START, messages[m].text)
         THEN [messages EXCEPT ![m].text = CutAtInstructions(@, compact_prompt)]
         ELSE messages
    ELSE LET b == FirstIdx(messages[m].blocks, HasInstructions) IN
         IF b = 0 THEN messages
         ELSE [messages EXCEPT ![m].blocks[b].text = CutAtInstructions(@, compact_prompt)]

replace_in_text(text) ==
    IF In(CONTINUATION_INSTRUCTION_POLLUTED, text)
    THEN Replace(text, CONTINUATION_INSTRUCTION_POLLUTED, CONTINUATION_INSTRUCTION_ALPHA)
    ELSE IF In(CONTINUATION_INSTRUCTION_ORIGINAL, text)
    THEN Replace(text, CONTINUATION_INSTRUCTION_ORIGINAL, CONTINUATION_INSTRUCTION_ALPHA)
    ELSE text

ContinuationInBlock(b) == IF IsText(b) THEN [b EXCEPT !.text = replace_in_text(@)] ELSE b

ContinuationInMessage(m) ==
    IF ~IsUser(m) THEN m
    ELSE IF m.ckind = "str" THEN [m EXCEPT !.text = replace_in_text(@)]
    ELSE [m EXCEPT !.blocks = [i \in 1..Len(@) |-> ContinuationInBlock(@[i])]]

_replace_continuation_instruction(messages) ==
    [i \in 1..Len(messages) |-> ContinuationInMessage(messages[i])]

rewrite_auto_compact(b, compact) ==
    LET system1 == IF _detect_auto_compact(b.system)
                   THEN _replace_system_prompt(b.system)
                   ELSE b.system
        messages2 == _replace_compact_instructions(b.messages, compact)
        messages3 == _replace_continuation_instruction(messages2)
    IN [system |-> system1, messages |-> messages3]

-----------------------------------------------------------------------------
(* greatloom/alpha/scrub.py *)

HOOK_SUCCESS == "<system-reminder>UserPromptSubmit hook success: Success</system-reminder>"
START_SUCCESS == "<system-reminder>SessionStart:startup hook success: Success</system-reminder>"

EXACT_NOISE_BLOCKS == {TextBlock(<<HOOK_SUCCESS>>), TextBlock(<<START_SUCCESS>>)}

\* tokens whose last characters are "</system-reminder>"
ReminderClose == {"</system-reminder>", "TW_CLOSE", "MW_CLOSE", HOOK_SUCCESS, START_SUCCESS}

\* A pattern is the sequence of its literal anchors (each the set of tokens
\* the literal matches at the end of) and, before each anchor, the least
\* number of tokens the lazy wildcard in front of it must consume.
SCRUB_PATTERNS == <<
    [anchor |-> <<{"TW_OPEN"}, {"TW_CLOSE"}>>, gap |-> <<0, 0>>],
    [anchor |-> <<{"MW_OPEN"}, {"MW_CLOSE"}>>, gap |-> <<0, 0>>],
    [anchor |-> <<{"FM_OPEN"}, {"FM_MODIFIED"}, {"FM_CHANGES"}, ReminderClose>>,
     gap |-> <<0, 1, 0, 0>>] >>

RECURSIVE MatchEnd(_, _, _, _)
\* Anchors k.. of pattern p matched lazily in t at or after position from:
\* the position of the last anchor, 0 when there is no match.
MatchEnd(t, from, p, k) ==
    IF k > Len(p.anchor) THEN from - 1
    ELSE LET lo == from + p.gap[k]
             cands == {j \in lo..Len(t) :
                          t[j] \in p.anchor[k] /\ MatchEnd(t, j + 1, p, k + 1) # 0}
         IN IF cands = {} THEN 0
            ELSE MatchEnd(t, (CHOOSE j \in cands : \A j2 \in cands : j <= j2) + 1, p, k + 1)

RECURSIVE Sub(_, _)
\* pattern.sub("", t)
Sub(p, t) ==
    LET starts == {i \in 1..Len(t) : t[i] \in p.anchor[1] /\ MatchEnd(t, i + 1, p, 2) # 0} IN
    IF starts = {} THEN t
    ELSE LET i == CHOOSE i \in starts : \A i2 \in starts : i <= i2
             e == MatchEnd(t, i + 1, p, 2)
         IN SubSeq(t, 1, i - 1) \o Sub(p, SubSeq(t, e + 1, Len(t)))

ScrubText(t) == Sub(SCRUB_PATTERNS[3], Sub(SCRUB_PATTERNS[2], Sub(SCRUB_PATTERNS[1], t)))

ScrubBlock(b) ==
    CASE b.type = "text" -> [b EXCEPT !.text = ScrubText(@)]
      [] b.type = "tool_result" /\ b.nkind \in {"list", "str"} ->
            [b EXCEPT !.ntexts = [i \in 1..Len(@) |-> ScrubText(@[i])]]
      [] OTHER -> b

\* keeps the exact noise blocks
KeepsNoise(b) == TRUE

NotNoise(b) == b \notin EXACT_NOISE_BLOCKS
NotEmptyText(b) == ~(b.type = "text" /\ Strip(b.text) = <<>>)

ScrubContent(content) ==
    LET kept == SelectSeq(content, NotNoise)
        scrubbed == [i \in 1..Len(kept) |-> ScrubBlock(kept[i])]
    IN SelectSeq(scrubbed, NotEmptyText)

ScrubMessage(m) ==
    IF IsUser(m) /\ m.ckind = "list" THEN [m EXCEPT !.blocks = ScrubContent(@)] ELSE m

scrub_noise(b) ==
    [b EXCEPT !.messages = [i \in 1..Len(@) |-> ScrubMessage(@[i])]]

-----------------------------------------------------------------------------
(* JSON objects that occur in message text.  The serialisation of one      *)
(* object is one token; Json gives the object it parses to.                *)

ALPHA_CANARY == "ALPHA_METADATA_UlVCQkVSRFVDSw"
DELIVERATOR_CANARY == "DELIVERATOR_METADATA_UlVCQkVSRFVDSw"
CANARY == "LOOM_METADATA_UlVCQkVSRFVDSw"
HOOK_PREFIX == "UserPromptSubmit hook additional context:"

Absent == "<absent>"

Obj(c, hp, p, mem, sid, sa, deep) ==
    [canary |-> c, has_prompt |-> hp, prompt |-> p, memories |-> mem,
     session_id |-> sid, sent_at |-> sa, deep |-> deep]

EmptyObj == Obj(Absent, FALSE, <<>>, <<>>, Absent, <<>>, {})

JsonTokens ==
    {"{alpha s1}", "{alpha s2}", "{alpha s3 mem}", "{alpha nested}", "{alpha no prompt}",
     "{alpha lowercase}", "{data:{alpha}}", "{deliv s1 t1}", "{deliv s2 t2}",
     "{deliv s3}", "{deliv nested}", "{loom s1}", "{loom s2}", "{other}",
     "{alpha memories null}", "{alpha memory str}", "{alpha score str}",
     "{alpha content null}", "{alpha created_at int}", "{alpha session int}",
     "{deliv session int}", "{deliv memories null}", "{loom session int}"}

Json(tok) ==
    CASE tok = "{alpha s1}" -> Obj(ALPHA_CANARY, TRUE, <<"hello">>, <<>>, "s1", <<>>, {})
      [] tok = "{alpha s2}" -> Obj(ALPHA_CANARY, TRUE, <<"world">>, <<>>, "s2", <<>>, {})
      [] tok = "{alpha s3 mem}" -> Obj(ALPHA_CANARY, TRUE, <<"hello">>, <<"42", "7">>, "s3", <<>>, {})
      \* the prompt is itself the text of an envelope
      [] tok = "{alpha nested}" -> Obj(ALPHA_CANARY, TRUE, <<"{alpha s2}">>, <<>>, "s4", <<>>, {})
      [] tok = "{alpha no prompt}" -> Obj(ALPHA_CANARY, FALSE, <<>>, <<>>, "s5", <<>>, {})
      [] tok = "{alpha lowercase}" -> Obj("alpha_metadata_ulvcqkverfvdsw", TRUE, <<"hello">>, <<>>, "s6", <<>>, {})
      \* the canary sits one level down, not at the top level
      [] tok = "{data:{alpha}}" -> Obj(Absent, TRUE, <<"hello">>, <<>>, "s7", <<>>, {ALPHA_CANARY})
      [] tok = "{deliv s1 t1}" -> Obj(DELIVERATOR_CANARY, FALSE, <<>>, <<>>, "s1", <<"t1">>, {})
      [] tok = "{deliv s2 t2}" -> Obj(DELIVERATOR_CANARY, FALSE, <<>>, <<>>, "s2", <<"t2">>, {})
      [] tok = "{deliv s3}" -> Obj(DELIVERATOR_CANARY, FALSE, <<>>, <<>>, "s3", <<>>, {})
      \* sent_at is itself text that carries an envelope
      [] tok = "{deliv nested}" -> Obj(DELIVERATOR_CANARY, FALSE, <<>>, <<>>, "s4", <<"{deliv s1 t1}">>, {})
      [] tok = "{loom s1}" -> Obj(CANARY, FALSE, <<>>, <<>>, "s1", <<>>, {})
      [] tok = "{loom s2}" -> Obj(CANARY, FALSE, <<>>, <<>>, "s2", <<>>, {})
      \* envelopes whose fields have other JSON types; PyTypes tells which
      [] tok = "{alpha memories null}" -> Obj(ALPHA_CANARY, TRUE, <<"hello">>, <<>>, "t1", <<>>, {})
      [] tok = "{alpha memory str}" -> Obj(ALPHA_CANARY, TRUE, <<"hello">>, <<"x">>, "t2", <<>>, {})
      [] tok = "{alpha score str}" -> Obj(ALPHA_CANARY, TRUE, <<"hello">>, <<"9">>, "t3", <<>>, {})
      [] tok = "{alpha content null}" -> Obj(ALPHA_CANARY, TRUE, <<"hello">>, <<"9">>, "t4", <<>>, {})
      [] tok = "{alpha created_at int}" -> Obj(ALPHA_CANARY, TRUE, <<"hello">>, <<"9">>, "t5", <<>>, {})
      [] tok = "{alpha session int}" -> Obj(ALPHA_CANARY, TRUE, <<"hello">>, <<>>, "t6", <<>>, {})
      [] tok = "{deliv session int}" -> Obj(DELIVERATOR_CANARY, FALSE, <<>>, <<>>, "t6", <<"t1">>, {})
      [] tok = "{deliv memories null}" -> Obj(DELIVERATOR_CANARY, FALSE, <<>>, <<>>, "t1", <<"t1">>, {})
      [] tok = "{loom session int}" -> Obj(CANARY, FALSE, <<>>, <<>>, "t6", <<>>, {})
      [] OTHER -> EmptyObj

\* An envelope whose prompt is spelled out: the serialisation up to the
\* opening quote of the prompt, the tokens of the prompt, the closing quote
\* and brace.
ENV_OPEN == "{\"canary\": \"ALPHA_METADATA_UlVCQkVSRFVDSw\", \"session_id\": \"s8\", \"prompt\": \""
ENV_CLOSE == "\"}"

\* tokens that stand for themselves inside a JSON string
StringTokens == {"hello", "what", "x", "S2", "TW_OPEN", "TW_CLOSE"}

RECURSIVE TokenMentions(_, _)
\* the characters of token tok include the string c
TokenMentions(tok, c) ==
    \/ tok = c
    \/ tok = ENV_OPEN /\ c = ALPHA_CANARY
    \/ /\ tok \in JsonTokens
       /\ LET o == Json(tok) IN
          \/ o.canary = c
          \/ c \in o.deep
          \/ \E i \in 1..Len(o.prompt) : TokenMentions(o.prompt[i], c)
          \/ \E i \in 1..Len(o.sent_at) : TokenMentions(o.sent_at[i], c)

\* c in text, for a string c that is no token sequence of its own
Mentions(text, c) == \E i \in 1..Len(text) : TokenMentions(text[i], c)

\* the tokens that have braces have "{" first and "}" last
HasOpenBrace(tok) == tok = "{" \/ tok = ENV_OPEN \/ tok \in JsonTokens
HasCloseBrace(tok) == tok = "}" \/ tok = ENV_CLOSE \/ tok \in JsonTokens

\* json.loads(t): <<object>>, or <<>> when it raises JSONDecodeError
Loads(t) ==
    LET u == Strip(t) IN
    IF Len(u) = 1 /\ u[1] \in JsonTokens THEN <<Json(u[1])>>
    ELSE IF Len(u) >= 2 /\ u[1] = ENV_OPEN /\ u[Len(u)] = ENV_CLOSE
            /\ \A i \in 2..(Len(u) - 1) : u[i] \in StringTokens
    THEN <<Obj(ALPHA_CANARY, TRUE, SubSeq(u, 2, Len(u) - 1), <<>>, "s8", <<>>, {})>>
    ELSE IF Len(u) >= 2 /\ u[1] = "{" /\ u[Len(u)] = "}"
            /\ \A i \in 2..(Len(u) - 1) : u[i] \in Ws
    THEN <<EmptyObj>>
    ELSE <<>>

\* text[text.find("{") : text.rfind("}") + 1] parsed: <<object>>, or <<>>
\* when a brace is missing, the slice is empty or it does not parse
LoadsBraceSlice(text) ==
    LET start == FirstIdx(text, HasOpenBrace)
        end == LastIdx(text, HasCloseBrace)
    IN IF start = 0 \/ end = 0 \/ end < start THEN <<>>
       ELSE Loads(SubSeq(text, start, end))

-----------------------------------------------------------------------------
(* greatloom/alpha/__init__.py: envelope detection and unwrapping *)

\* accepts a text that merely contains an envelope
ContainsEnvelope(text) ==
    LET envelope == LoadsBraceSlice(text) IN
    IF envelope = <<>> THEN <<>>
    ELSE IF envelope[1].canary # ALPHA_CANARY THEN <<>>
    ELSE IF ~envelope[1].has_prompt THEN <<>>
    ELSE envelope

_is_metadata_envelope(text) ==
    LET t == Strip(text) IN
    IF ~(t # <<>> /\ HasOpenBrace(t[1]) /\ HasCloseBrace(t[Len(t)]))
    THEN <<>>
    ELSE LET envelope == Loads(t) IN
         IF envelope = <<>> THEN <<>>
         ELSE IF envelope[1].canary # ALPHA_CANARY THEN <<>>
         ELSE IF ~envelope[1].has_prompt THEN <<>>
         ELSE envelope

\* "Memory #<id> (<relative time>):\n<content>" of the memory with this id
_format_memory_inline(memory) ==
    CASE memory = "42" -> "Memory #42 (today at 3:00 PM): remember to check the pond"
      [] memory = "7" -> "Memory #7 (yesterday at 9:15 AM): ducks"
      [] OTHER -> "Memory #? ():"

RECURSIVE JoinMemories(_)
JoinMemories(memories_list) ==
    IF memories_list = <<>> THEN <<>>
    ELSE <<"nn", _format_memory_inline(Head(memories_list))>> \o JoinMemories(Tail(memories_list))

_build_unwrapped_text(envelope) ==
    IF envelope.memories = <<>> THEN envelope.prompt
    ELSE envelope.prompt \o JoinMemories(envelope.memories)

UnwrapText(text) ==
    LET envelope == _is_metadata_envelope(text) IN
    IF envelope # <<>> THEN _build_unwrapped_text(envelope[1]) ELSE text

UnwrapBlock(b) == IF IsText(b) THEN [b EXCEPT !.text = UnwrapText(@)] ELSE b

UnwrapMessage(m) ==
    IF ~IsUser(m) THEN m
    ELSE IF m.ckind = "str" THEN [m EXCEPT !.text = UnwrapText(@)]
    ELSE [m EXCEPT !.blocks = [i \in 1..Len(@) |-> UnwrapBlock(@[i])]]

RECURSIVE EnvelopesInBlocks(_)
EnvelopesInBlocks(blocks) ==
    IF blocks = <<>> THEN <<>>
    ELSE (IF IsText(Head(blocks)) THEN _is_metadata_envelope(Head(blocks).text) ELSE <<>>)
         \o EnvelopesInBlocks(Tail(blocks))

RECURSIVE EnvelopesIn(_)
\* the envelopes the loop meets, in the order it meets them
EnvelopesIn(messages) ==
    IF messages = <<>> THEN <<>>
    ELSE LET m == Head(messages) IN
         (IF ~IsUser(m) THEN <<>>
          ELSE IF m.ckind = "str" THEN _is_metadata_envelope(m.text)
          ELSE EnvelopesInBlocks(m.blocks))
         \o EnvelopesIn(Tail(messages))

StructuredMeta(envelope) ==
    [session_id |-> envelope.session_id, sent_at |-> envelope.sent_at,
     memories |-> envelope.memories]

\* returns the pair (body, metadata)
unwrap_structured_input(b) ==
    LET found == EnvelopesIn(b.messages)
        last_metadata == IF found = <<>> THEN <<>> ELSE <<found[Len(found)]>>
    IN [body |-> [b EXCEPT !.messages = [i \in 1..Len(@) |-> UnwrapMessage(@[i])]],
        metadata |-> IF last_metadata = <<>> THEN <<>>
                     ELSE <<StructuredMeta(last_metadata[1])>>]

-----------------------------------------------------------------------------
(* greatloom/metadata.py: the DELIVERATOR canary *)

\* the transform of one piece of text the scan meets: <<sent_at>> or <<>>
DelivFound(text) ==
    IF Mentions(text, DELIVERATOR_CANARY) THEN LoadsBraceSlice(text) ELSE <<>>

RECURSIVE DelivScanBlocks(_, _, _)
\* (msg_idx, block_idx, object) for the blocks from block_idx on
DelivScanBlocks(blocks, msg_idx, block_idx) ==
    IF block_idx > Len(blocks) THEN <<>>
    ELSE LET block == blocks[block_idx]
             o == IF IsText(block) THEN DelivFound(block.text) ELSE <<>>
         IN (IF o = <<>> THEN <<>>
             ELSE << [msg_idx |-> msg_idx, block_idx |-> block_idx, object |-> o[1]] >>)
            \o DelivScanBlocks(blocks, msg_idx, block_idx + 1)

RECURSIVE DelivScan(_, _)
\* the list transforms after the scan (block_idx 0 stands for None)
DelivScan(messages, msg_idx) ==
    IF msg_idx > Len(messages) THEN <<>>
    ELSE LET msg == messages[msg_idx] IN
         (IF ~IsUser(msg) THEN <<>>
          ELSE IF msg.ckind = "str"
          THEN LET o == DelivFound(msg.text) IN
               IF o = <<>> THEN <<>>
               ELSE << [msg_idx |-> msg_idx, block_idx |-> 0, object |-> o[1]] >>
          ELSE DelivScanBlocks(msg.blocks, msg_idx, 1))
         \o DelivScan(messages, msg_idx + 1)

\* list.pop(i), 1-based
Pop(s, i) == SubSeq(s, 1, i - 1) \o SubSeq(s, i + 1, Len(s))

Timestamp(sent_at) == <<"[Sent ">> \o sent_at \o <<"]">>

\* drops the whole message for an envelope without sent_at
DelivApplyDropsMessage(messages, tr) ==
    IF tr.object.sent_at # <<>>
    THEN IF tr.block_idx = 0
         THEN [messages EXCEPT ![tr.msg_idx] = StrMsg(messages[tr.msg_idx].role, Timestamp(tr.object.sent_at))]
         ELSE [messages EXCEPT ![tr.msg_idx].blocks[tr.block_idx].text = Timestamp(tr.object.sent_at)]
    ELSE Pop(messages, tr.msg_idx)

\* one iteration of the loop over reversed(transforms)
DelivApply(messages, tr) ==
    LET sent_at == tr.object.sent_at
        msg == messages[tr.msg_idx]
    IN IF tr.block_idx = 0
       THEN IF sent_at # <<>>
            THEN [messages EXCEPT ![tr.msg_idx] = StrMsg(msg.role, Timestamp(sent_at))]
            ELSE Pop(messages, tr.msg_idx)
       ELSE IF msg.ckind = "list" /\ tr.block_idx <= Len(msg.blocks)
            THEN IF sent_at # <<>>
                 THEN [messages EXCEPT ![tr.msg_idx].blocks[tr.block_idx].text = Timestamp(sent_at)]
                 ELSE LET content == Pop(msg.blocks, tr.block_idx) IN
                      IF content = <<>> THEN Pop(messages, tr.msg_idx)
                      ELSE [messages EXCEPT ![tr.msg_idx].blocks = content]
            ELSE messages

RECURSIVE DelivApplyInOrder(_, _)
\* applies the transforms first to last
DelivApplyInOrder(messages, transforms) ==
    IF transforms = <<>> THEN messages
    ELSE DelivApplyInOrder(DelivApply(messages, transforms[1]), Tail(transforms))

RECURSIVE DelivApplyReversed(_, _)
DelivApplyReversed(messages, transforms) ==
    IF transforms = <<>> THEN messages
    ELSE DelivApplyReversed(DelivApply(messages, transforms[Len(transforms)]),
                            SubSeq(transforms, 1, Len(transforms) - 1))

\* returns the pair (metadata, body)
extract_metadata(b) ==
    IF b.messages = <<>> THEN [metadata |-> <<>>, body |-> b]
    ELSE LET transforms == DelivScan(b.messages, 1) IN
         [metadata |-> IF transforms = <<>> THEN <<>>
                       ELSE <<transforms[Len(transforms)].object>>,
          body |-> [b EXCEPT !.messages = DelivApplyReversed(b.messages, transforms)]]

-----------------------------------------------------------------------------
(* loom/metadata.py: the LOOM canary *)

IsLoomBlock(block) ==
    /\ IsText(block)
    /\ Mentions(block.text, CANARY)
    /\ Mentions(block.text, HOOK_PREFIX)

HasLoomBlock(msg) ==
    IsUser(msg) /\ msg.ckind = "list" /\ FirstIdx(msg.blocks, IsLoomBlock) # 0

\* returns the pair (metadata, body); the body is modified in place
loom_extract_metadata(b) ==
    LET msg_idx == LastIdx(b.messages, HasLoomBlock) IN
    IF msg_idx = 0 THEN [metadata |-> <<>>, body |-> b]
    ELSE LET block_idx == FirstIdx(b.messages[msg_idx].blocks, IsLoomBlock)
             text == b.messages[msg_idx].blocks[block_idx].text
         IN [metadata |-> LoadsBraceSlice(text),
             body |-> [b EXCEPT !.messages[msg_idx].blocks = Pop(@, block_idx)]]

-----------------------------------------------------------------------------
(* greatloom/alpha/intro.py *)

\* a single backtick, and a fence of three
Ticks == {"BACKTICK", "FENCE"}

RECURSIVE StripTicks(_)
\* mem.strip of backticks
StripTicks(t) ==
    IF t # <<>> /\ t[1] \in Ticks THEN StripTicks(Tail(t))
    ELSE IF t # <<>> /\ t[Len(t)] \in Ticks THEN StripTicks(SubSeq(t, 1, Len(t) - 1))
    ELSE t

RECURSIVE CleanMemorables(_)
CleanMemorables(memorables) ==
    IF memorables = <<>> THEN <<>>
    ELSE LET mem == Strip(Head(memorables)) IN
         (IF mem = <<>> \/ mem = <<"FENCE">> THEN <<>>
          ELSE IF StripTicks(mem) # <<>> THEN <<StripTicks(mem)>> ELSE <<>>)
         \o CleanMemorables(Tail(memorables))

RECURSIVE MemorableLines(_)
MemorableLines(cleaned) ==
    IF cleaned = <<>> THEN <<>>
    ELSE <<"n", "- ">> \o Head(cleaned) \o MemorableLines(Tail(cleaned))

format_block(memorables) ==
    LET cleaned == CleanMemorables(memorables) IN
    IF memorables = <<>> \/ cleaned = <<>> THEN <<>>
    ELSE <<"<intro>", "n", "Alpha, this is your inner voice. Store these now:">>
         \o MemorableLines(cleaned) \o <<"n", "</intro>">>

\* Called by AlphaPattern.request; appends the synthetic final user message.
inject_as_final_message(b, block) ==
    [b EXCEPT !.messages = Append(@, ListMsg("user", <<TextBlock(block)>>))]

\* intro.get_memorables(session_id) against the list the key-value store holds
get_memorables(session_id, kv) ==
    IF session_id = <<>> THEN <<>>
    ELSE IF kv.down \/ "memorables" \in kv.failing THEN <<>>
    ELSE kv.memorables

-----------------------------------------------------------------------------
(* greatloom/alpha/hud.py *)

None == <<>>
Some(v) == <<v>>
\* Python truthiness of an Optional[str]
Truthy(opt) == opt # None /\ opt[1] # <<>>

HudKeys == {"weather", "calendar", "todos", "to_self", "to_self_time",
            "today_so_far", "today_so_far_time"}

HUDData == [k \in HudKeys |-> None]

\* keeps what the store holds, whatever failed
HudFetchKeepsFailed(kv) == kv.hud

\* hud.fetch(): a failed GET gives None for its field, a failed connection
\* gives the all-None HUDData
hud_fetch(kv) ==
    IF kv.down THEN HUDData
    ELSE [k \in HudKeys |-> IF k \in kv.failing THEN None ELSE kv.hud[k]]

\* the summaries database cannot be reached
DbDown == <<>>

\* the pair in the order of the query, newest first
CapsuleFetchNewestFirst(summaries) ==
    IF summaries = DbDown THEN <<None, None>> ELSE <<summaries[2], summaries[1]>>

\* capsule.fetch(): (older, newer), (None, None) when the query fails
capsule_fetch(summaries) ==
    IF summaries = DbDown THEN <<None, None>> ELSE summaries

-----------------------------------------------------------------------------
(* greatloom/alpha/__init__.py: AlphaPattern.request *)

Header(h, name, default) == IF h[name] = None THEN default ELSE h[name][1]

\* str.title() of a client name
Title(tok) == IF tok = "duckpond" THEN "Duckpond" ELSE tok

When(cond, text) == IF cond THEN <<TextBlock(text)>> ELSE <<>>

HereParts(client_name, machine_name, hud_data) ==
    (IF client_name # None /\ client_name[1] # <<>>
     THEN <<"**Client:** ">> \o [i \in 1..Len(client_name[1]) |-> Title(client_name[1][i])] \o <<"n">>
     ELSE <<>>)
    \o <<"**Machine:** ">> \o machine_name
    \o (IF Truthy(hud_data.weather) THEN <<"n", "n">> \o hud_data.weather[1] ELSE <<>>)

RECURSIVE ContextBlocks(_)
ContextBlocks(context_blocks) ==
    IF context_blocks = <<>> THEN <<>>
    ELSE <<TextBlock(<<"## Context: ", Head(context_blocks).path, "nn">> \o Head(context_blocks).content)>>
         \o ContextBlocks(Tail(context_blocks))

RECURSIVE HintLines(_)
HintLines(context_hints) ==
    IF context_hints = <<>> THEN <<>>
    ELSE (IF Len(context_hints) > 1 THEN <<"- ", Head(context_hints), "n">>
          ELSE <<"- ", Head(context_hints)>>)
         \o HintLines(Tail(context_hints))

\* the blocks of lines 266-324, in the order the code appends them
BuildSystemBlocks(h, soul, hud_data, summary1, summary2, context) ==
    <<TextBlock(<<"# Alpha", "nn">> \o soul)>>
    \o When(Truthy(summary1), IF summary1 = None THEN <<>> ELSE summary1[1])
    \o When(Truthy(summary2), IF summary2 = None THEN <<>> ELSE summary2[1])
    \o (IF Truthy(hud_data.to_self)
        THEN <<TextBlock(<<"## Letter from last night">>
                         \o (IF Truthy(hud_data.to_self_time)
                             THEN <<" (">> \o hud_data.to_self_time[1] \o <<")">> ELSE <<>>)
                         \o <<"nn">> \o hud_data.to_self[1])>>
        ELSE <<>>)
    \o (IF Truthy(hud_data.today_so_far)
        THEN <<TextBlock(<<"## Today so far (", "DATE", ", ">>
                         \o (IF Truthy(hud_data.today_so_far_time)
                             THEN hud_data.today_so_far_time[1] ELSE <<"NOW">>)
                         \o <<")", "nn">> \o hud_data.today_so_far[1])>>
        ELSE <<>>)
    \o <<TextBlock(<<"## Here", "nn">>
                   \o HereParts(h["x-loom-client"], Header(h, "x-machine-name", <<"unknown">>), hud_data))>>
    \o ContextBlocks(context.blocks)
    \o (IF context.hints # <<>>
        THEN <<TextBlock(<<"## Context available", "nn", "Read them when relevant:", "nn">>
                         \o HintLines(context.hints))>>
        ELSE <<>>)
    \o (IF Truthy(hud_data.calendar)
        THEN <<TextBlock(<<"## Events", "nn">> \o hud_data.calendar[1])>> ELSE <<>>)
    \o (IF Truthy(hud_data.todos)
        THEN <<TextBlock(<<"## Todos", "nn">> \o hud_data.todos[1])>> ELSE <<>>)

\* marks every built block
AddCacheControlEverywhere(blocks) ==
    [i \in 1..Len(blocks) |-> [blocks[i] EXCEPT !.cc = TRUE]]

\* system_blocks[-1]["cache_control"] = {"type": "ephemeral"}
AddCacheControl(blocks) ==
    IF blocks # <<>> THEN [blocks EXCEPT ![Len(blocks)].cc = TRUE] ELSE blocks

\* lines 336-348
InjectSystem(existing_system, blocks) ==
    IF existing_system.kind = "none" THEN ListSystem(blocks)
    ELSE IF existing_system.kind = "list" /\ Len(existing_system.blocks) >= 1
    THEN ListSystem(<<existing_system.blocks[1]>> \o blocks)
    ELSE ListSystem(blocks)

\* all() where the code has any()
AllToolResults(messages) ==
    LET i == LastIdx(messages, IsUser) IN
    /\ i # 0
    /\ messages[i].ckind = "list"
    /\ \A k \in 1..Len(messages[i].blocks) : messages[i].blocks[k].type = "tool_result"

\* lines 370-378
IsToolResultMessage(messages) ==
    LET i == LastIdx(messages, IsUser) IN
    /\ i # 0
    /\ messages[i].ckind = "list"
    /\ \E k \in 1..Len(messages[i].blocks) : messages[i].blocks[k].type = "tool_result"

\* lines 361-384
InjectMemorablesInto(b, memorables) ==
    IF memorables # <<>> /\ ~IsToolResultMessage(b.messages)
    THEN inject_as_final_message(b, format_block(memorables))
    ELSE b

\* returns on the first result
AnyFetchDone(f) == f.hud # <<>> \/ f.capsule # <<>> \/ f.memorables # <<>>

\* asyncio.gather returns once each of its awaitables has a result
GatherComplete(f) == f.hud # <<>> /\ f.capsule # <<>> /\ f.memorables # <<>>

-----------------------------------------------------------------------------
(* Inputs of the request runs *)

Plain(w) == TextBlock(<<w>>)
WithCache(b) == [b EXCEPT !.cc = TRUE]

AlphaSystems ==
    {NoSystem,
     StrSystem(<<"S1", "sdk">>),
     ListSystem(<<>>),
     ListSystem(<<Plain("billing"), Plain("sdk")>>),
     ListSystem(<<Plain("billing"), TextBlock(<<"S1", "sdk">>), TextBlock(<<"S1">>)>>),
     ListSystem(<<TextBlock(<<"S1", "sdk">>)>>),
     ListSystem(<<WithCache(Plain("billing")), WithCache(Plain("sdk"))>>)}

AlphaMessages ==
    {StrMsg("assistant", <<"ok">>),
     StrMsg("user", <<"hi">>),
     StrMsg("user", <<"{alpha s1}">>),
     StrMsg("user", CONTINUATION_INSTRUCTION_ORIGINAL),
     ListMsg("user", <<>>),
     ListMsg("user", <<Plain("hi"), TextBlock(<<"hi", "ws", "S2", "rest">>)>>),
     ListMsg("user", <<ToolResult("str", <<<<"out">>>>)>>),
     ListMsg("user", <<ToolResult("list", <<<<"out">>>>), Plain("hi")>>),
     ListMsg("user", <<Plain(HOOK_SUCCESS)>>),
     ListMsg("user", <<TextBlock(<<"TW_OPEN", "nag", "TW_CLOSE">>), Plain("{alpha s3 mem}")>>)}

RECURSIVE SeqsUpTo(_, _)
\* the sequences of at most n elements of S
SeqsUpTo(S, n) ==
    IF n = 0 THEN {<<>>}
    ELSE LET shorter == SeqsUpTo(S, n - 1) IN
         shorter \cup {Append(q, x) : q \in shorter, x \in S}

Hud(w, c, t, ts, tst, tsf, tsft) ==
    [weather |-> w, calendar |-> c, todos |-> t, to_self |-> ts, to_self_time |-> tst,
     today_so_far |-> tsf, today_so_far_time |-> tsft]

FullHud ==
    Hud(Some(<<"sunny">>), Some(<<"dentist">>), Some(<<"laundry">>), Some(<<"letter">>),
        Some(<<"10 PM">>), Some(<<"busy">>), Some(<<"3 PM">>))

Kv(down, failing, hud, memorables) ==
    [down |-> down, failing |-> failing, hud |-> hud, memorables |-> memorables]

Backend(kv, summaries, context, compact) ==
    [kv |-> kv, summaries |-> summaries, context |-> context, compact |-> compact,
     soul |-> <<"SOUL">>]

NoContext == [blocks |-> <<>>, hints |-> <<>>]
SomeContext ==
    [blocks |-> << [path |-> "Pondside/ALPHA.md", content |-> <<"notes">>] >>,
     hints |-> <<"Read(Basement/ALPHA.md) when in the basement">>]

AlphaStores ==
    {Backend(Kv(TRUE, {}, FullHud, <<<<"remember X">>>>), <<None, None>>, NoContext, None),
     Backend(Kv(FALSE, {}, HUDData, <<>>), <<Some(<<"yesterday">>), None>>, NoContext, Some(<<"COMPACT_DOC">>)),
     Backend(Kv(FALSE, {"to_self_time", "todos"}, FullHud, <<<<"remember X">>, <<"FENCE">>, <<"BACKTICK", "Y", "BACKTICK">>>>),
             <<Some(<<"yesterday">>), Some(<<"last night">>)>>, SomeContext, Some(<<"COMPACT_DOC">>)),
     Backend(Kv(FALSE, {}, FullHud, <<<<"FENCE">>, <<"ws">>>>), <<None, None>>, SomeContext, None)}

AlphaHeaders ==
    {[h \in {"x-machine-name", "x-session-id", "x-loom-client"} |-> None],
     [h \in {"x-machine-name", "x-session-id", "x-loom-client"} |->
        CASE h = "x-machine-name" -> Some(<<"primer">>)
          [] h = "x-session-id" -> Some(<<"session">>)
          [] h = "x-loom-client" -> Some(<<"duckpond">>)]}

NoBody == [system |-> NoSystem, messages |-> <<>>]
Pending == [hud |-> <<>>, capsule |-> <<>>, memorables |-> <<>>]
\* no HTTP request: the operation is called directly
NoHttp == [method |-> "", path |-> <<>>, received |-> "", body_bytes |-> "", body |-> "None",
           pattern |-> <<>>, transformed |-> FALSE, forwarded |-> <<>>, error |-> "",
           forwards |-> 0, upstream |-> <<>>, status |-> 0, content |-> "", sent |-> <<>>,
           callbacks |-> <<>>, token |-> "none", kv |-> "up", written |-> <<>>,
           watcher |-> "none", request_headers |-> <<>>, forward_headers |-> <<>>,
           upstream_headers |-> <<>>, response_headers |-> <<>>,
           span |-> "none", span_exits |-> 0]
\* a TraceManager with no active trace, no span started, no request
NoTraces == [_active |-> <<>>, spans |-> <<>>, requests |-> <<>>, lost |-> 0,
             noop_changed |-> FALSE]
\* no watcher: empty registry, no task, an empty transcript
NoWatch == [_watchers |-> <<>>, tasks |-> <<>>, now |-> 0, exists |-> TRUE, file |-> <<>>,
            lines |-> 0, modified |-> FALSE, deleted |-> FALSE, published |-> <<>>,
            registered |-> {}, publish_failed |-> FALSE,
            read_ok |-> FALSE, read_failed |-> FALSE,
            stop |-> [state |-> "idle", task |-> 0, calls |-> 0, left |-> FALSE],
            ensures |-> 0, ensure_live |-> TRUE]

-----------------------------------------------------------------------------
(* One call of AlphaPattern.request *)

Init ==
    /\ pc = "request"
    /\ fn = "AlphaPattern.request"
    /\ headers \in AlphaHeaders
    /\ \E sys \in AlphaSystems, msgs \in SeqsUpTo(AlphaMessages, MaxMsgs) :
          body = [system |-> sys, messages |-> msgs]
    /\ body0 = body
    /\ body1 = NoBody
    /\ metadata = None
    /\ store \in AlphaStores
    /\ fetched = Pending
    /\ system_blocks = <<>>
    /\ order = <<>>
    /\ watch = NoWatch
    /\ trace_manager = NoTraces
    /\ http = NoHttp

\* line 236
RewriteAutoCompact ==
    /\ pc = "request"
    /\ body' = rewrite_auto_compact(body, store.compact)
    /\ pc' = "compacted"
    /\ order' = Append(order, "compact")
    /\ UNCHANGED <<trace_manager, watch, http, fn, headers, body0, body1, metadata, store, fetched, system_blocks>>

\* line 240
ScrubNoise ==
    /\ pc = "compacted"
    /\ body' = scrub_noise(body)
    /\ pc' = "scrubbed"
    /\ order' = Append(order, "scrub")
    /\ UNCHANGED <<trace_manager, watch, http, fn, headers, body0, body1, metadata, store, fetched, system_blocks>>

\* lines 244-261: unwrap, merge the metadata, start the three fetches
UnwrapStructuredInput ==
    /\ pc = "scrubbed"
    /\ LET r == unwrap_structured_input(body) IN
       /\ body' = r.body
       /\ metadata' = IF r.metadata # None THEN r.metadata ELSE metadata
    /\ pc' = "gather"
    /\ order' = Append(order, "unwrap")
    /\ UNCHANGED <<trace_manager, watch, http, fn, headers, body0, body1, store, fetched, system_blocks>>

FetchHud ==
    /\ pc = "gather"
    /\ fetched.hud = <<>>
    /\ fetched' = [fetched EXCEPT !.hud = <<hud_fetch(store.kv)>>]
    /\ UNCHANGED <<trace_manager, watch, http, pc, fn, headers, body, body0, body1, metadata, store, system_blocks, order>>

FetchCapsule ==
    /\ pc = "gather"
    /\ fetched.capsule = <<>>
    /\ fetched' = [fetched EXCEPT !.capsule = <<capsule_fetch(store.summaries)>>]
    /\ UNCHANGED <<trace_manager, watch, http, pc, fn, headers, body, body0, body1, metadata, store, system_blocks, order>>

FetchMemorables ==
    /\ pc = "gather"
    /\ fetched.memorables = <<>>
    /\ fetched' = [fetched EXCEPT !.memorables =
                      <<get_memorables(Header(headers, "x-session-id", <<>>), store.kv)>>]
    /\ UNCHANGED <<trace_manager, watch, http, pc, fn, headers, body, body0, body1, metadata, store, system_blocks, order>>

\* line 257: the await returns
GatherJoin ==
    /\ pc = "gather"
    /\ GatherComplete(fetched)
    /\ pc' = "joined"
    /\ order' = Append(order, "gather")
    /\ UNCHANGED <<trace_manager, watch, http, fn, headers, body, body0, body1, metadata, store, fetched, system_blocks>>

\* lines 266-348
BuildSystem ==
    /\ pc = "joined"
    /\ system_blocks' = AddCacheControl(
            BuildSystemBlocks(headers, store.soul, fetched.hud[1], fetched.capsule[1][1],
                              fetched.capsule[1][2], store.context))
    /\ body' = [body EXCEPT !.system = InjectSystem(@, system_blocks')]
    /\ pc' = "system"
    /\ order' = Append(order, "system")
    /\ UNCHANGED <<trace_manager, watch, http, fn, headers, body0, body1, metadata, store, fetched>>

\* lines 361-384
InjectMemorables ==
    /\ pc = "system"
    /\ body' = InjectMemorablesInto(body, fetched.memorables[1])
    /\ pc' = "memorables"
    /\ order' = Append(order, "memorables")
    /\ UNCHANGED <<trace_manager, watch, http, fn, headers, body0, body1, metadata, store, fetched, system_blocks>>

\* lines 399-402
Return ==
    /\ pc = "memorables"
    /\ pc' = "returned"
    /\ order' = IF Header(headers, "x-session-id", <<>>) # <<>>
                THEN Append(order, "count_and_stash") ELSE order
    /\ UNCHANGED <<trace_manager, watch, http, fn, headers, body, body0, body1, metadata, store, fetched, system_blocks>>

Next ==
    \/ RewriteAutoCompact
    \/ ScrubNoise
    \/ UnwrapStructuredInput
    \/ FetchHud
    \/ FetchCapsule
    \/ FetchMemorables
    \/ GatherJoin
    \/ BuildSystem
    \/ InjectMemorables
    \/ Return

Spec == Init /\ [][Next]_vars

-----------------------------------------------------------------------------
(* Runs of one operation on its own: applied to an input body, then once   *)
(* more to its own output.                                                 *)

AlphaEnvelopeTexts ==
    {<<"hi">>, <<"{alpha s1}">>, <<"ws", "{alpha s2}", "n">>, <<"{alpha s3 mem}">>,
     <<"{alpha nested}">>, <<"{alpha no prompt}">>, <<"{alpha lowercase}">>,
     <<"{data:{alpha}}">>, <<"see", "{alpha s1}">>, <<"{alpha s1}", "{alpha s2}">>,
     <<"{", ALPHA_CANARY, "}">>, <<"{", "ws", "}">>}

UnwrapMessages ==
    {StrMsg("user", t) : t \in AlphaEnvelopeTexts}
    \cup {ListMsg("user", <<TextBlock(t)>>) : t \in AlphaEnvelopeTexts}
    \cup {StrMsg("assistant", <<"{alpha s1}">>),
          ListMsg("assistant", <<Plain("{alpha s2}")>>),
          ListMsg("user", <<ToolResult("str", <<<<"{alpha s1}">>>>)>>),
          ListMsg("user", <<ToolResult("list", <<<<"{alpha s2}">>>>), Plain("{alpha s1}")>>),
          ListMsg("user", <<Plain("{alpha s2}"), Plain("hi"), Plain("{alpha s3 mem}")>>)}

DelivTexts ==
    {<<"hi">>, <<HOOK_PREFIX, "{deliv s1 t1}">>, <<HOOK_PREFIX, "{deliv s2 t2}">>,
     <<HOOK_PREFIX, "{deliv s3}">>, <<HOOK_PREFIX, "{deliv nested}">>,
     <<"diff --git", "{deliv s1 t1}">>, <<"grep", DELIVERATOR_CANARY>>,
     <<"{other}", DELIVERATOR_CANARY>>, <<"}", DELIVERATOR_CANARY, "{">>}

DelivMessages ==
    {StrMsg("user", t) : t \in DelivTexts}
    \cup {ListMsg("user", <<TextBlock(t)>>) : t \in DelivTexts}
    \cup {StrMsg("assistant", <<"ok">>),
          ListMsg("assistant", <<TextBlock(<<HOOK_PREFIX, "{deliv s1 t1}">>)>>),
          ListMsg("user", <<Plain("hi"), TextBlock(<<HOOK_PREFIX, "{deliv s3}">>)>>),
          ListMsg("user", <<TextBlock(<<HOOK_PREFIX, "{deliv s3}">>),
                            TextBlock(<<HOOK_PREFIX, "{deliv s3}">>)>>),
          ListMsg("user", <<TextBlock(<<HOOK_PREFIX, "{deliv s3}">>), Plain("hi"),
                            TextBlock(<<HOOK_PREFIX, "{deliv s1 t1}">>)>>),
          ListMsg("user", <<ToolResult("str", <<<<HOOK_PREFIX, "{deliv s1 t1}">>>>)>>)}

LoomTexts ==
    {<<"hi">>, <<HOOK_PREFIX, "{loom s1}">>, <<HOOK_PREFIX, "{loom s2}">>,
     <<"diff --git", "{loom s1}">>, <<HOOK_PREFIX, CANARY>>, <<"grep", CANARY>>}

LoomMessages ==
    {StrMsg("user", t) : t \in LoomTexts}
    \cup {ListMsg("user", <<TextBlock(t)>>) : t \in LoomTexts}
    \cup {StrMsg("assistant", <<"ok">>),
          ListMsg("assistant", <<TextBlock(<<HOOK_PREFIX, "{loom s1}">>)>>),
          ListMsg("user", <<Plain("hi"), TextBlock(<<HOOK_PREFIX, "{loom s1}">>),
                            TextBlock(<<HOOK_PREFIX, "{loom s2}">>)>>),
          ListMsg("user", <<ToolResult("str", <<<<HOOK_PREFIX, "{loom s1}">>>>)>>)}

CompactTexts ==
    {<<"hi">>, <<"hi", "ws", "S2", "rest">>, <<"S2", "S2">>,
     CONTINUATION_INSTRUCTION_ORIGINAL, CONTINUATION_INSTRUCTION_POLLUTED,
     <<"summary", "nn">> \o CONTINUATION_INSTRUCTION_POLLUTED \o <<"CONTINUE_TAIL">>,
     CONTINUATION_INSTRUCTION_POLLUTED \o <<"nn">> \o CONTINUATION_INSTRUCTION_ORIGINAL}

CompactMessages ==
    {StrMsg("user", t) : t \in CompactTexts}
    \cup {ListMsg("user", <<TextBlock(t)>>) : t \in CompactTexts}
    \cup {StrMsg("assistant", <<"hi", "ws", "S2", "rest">>),
          ListMsg("assistant", <<TextBlock(CONTINUATION_INSTRUCTION_ORIGINAL)>>),
          ListMsg("user", <<TextBlock(<<"hi", "S2">>), TextBlock(<<"S2", "more">>)>>),
          ListMsg("user", <<ToolResult("str", <<<<"S2">>>>), Plain("hi")>>)}

InitRun(f, messages, systems, stores) ==
    /\ pc = "input"
    /\ fn = f
    /\ headers \in {[h \in {"x-machine-name", "x-session-id", "x-loom-client"} |-> None]}
    /\ \E sys \in systems, msgs \in SeqsUpTo(messages, MaxMsgs) :
          body = [system |-> sys, messages |-> msgs]
    /\ body0 = body
    /\ body1 = NoBody
    /\ metadata = None
    /\ store \in stores
    /\ fetched = Pending
    /\ system_blocks = <<>>
    /\ order = <<>>
    /\ watch = NoWatch
    /\ trace_manager = NoTraces
    /\ http = NoHttp

OneStore == {Backend(Kv(FALSE, {}, HUDData, <<>>), <<None, None>>, NoContext, None)}
CompactStores ==
    {Backend(Kv(FALSE, {}, HUDData, <<>>), <<None, None>>, NoContext, c) :
        c \in {None, Some(<<"COMPACT_DOC">>)}}

InitFn ==
    \/ InitRun("unwrap_structured_input", UnwrapMessages, {NoSystem}, OneStore)
    \/ InitRun("greatloom.metadata.extract_metadata", DelivMessages, {NoSystem}, OneStore)
    \/ InitRun("loom.metadata.extract_metadata", LoomMessages, {NoSystem}, OneStore)
    \/ InitRun("rewrite_auto_compact", CompactMessages, AlphaSystems, CompactStores)

\* the call returns (body, metadata): record it and move on
Applied(result) ==
    /\ pc \in {"input", "once"}
    /\ body' = result.body
    /\ metadata' = result.metadata
    /\ body1' = IF pc = "input" THEN result.body ELSE body1
    /\ pc' = IF pc = "input" THEN "once" ELSE "twice"
    /\ UNCHANGED <<trace_manager, watch, http, fn, headers, body0, store, fetched, system_blocks, order>>

ApplyUnwrap ==
    /\ fn = "unwrap_structured_input"
    /\ Applied(unwrap_structured_input(body))

ApplyExtract ==
    /\ fn = "greatloom.metadata.extract_metadata"
    /\ Applied(extract_metadata(body))

ApplyLoomExtract ==
    /\ fn = "loom.metadata.extract_metadata"
    /\ Applied(loom_extract_metadata(body))

ApplyRewrite ==
    /\ fn = "rewrite_auto_compact"
    /\ Applied([body |-> rewrite_auto_compact(body, store.compact), metadata |-> None])

NextFn ==
    \/ ApplyUnwrap
    \/ ApplyExtract
    \/ ApplyLoomExtract
    \/ ApplyRewrite

SpecFn == InitFn /\ [][NextFn]_vars

\* the request runs and the single-operation runs together
SpecAll == (Init \/ InitFn) /\ [][Next \/ NextFn]_vars

-----------------------------------------------------------------------------
(* Properties *)

Roles(messages) == [i \in 1..Len(messages) |-> messages[i].role]
IncomingListSystem == body0.system.kind = "list" /\ Len(body0.system.blocks) >= 1

\* C1: when the incoming system is a non-empty list, the first element of the
\* outgoing system array equals the first element of the incoming one.
C1_FirstSystemElementKept ==
    (fn = "AlphaPattern.request" /\ pc = "returned" /\ IncomingListSystem)
        => /\ body.system.kind = "list"
           /\ body.system.blocks[1] = body0.system.blocks[1]

\* C3 as stated: in the outgoing system array at most one block carries
\* cache_control, and if one does it is the last block.
C3_AtMostOneCacheControl ==
    (fn = "AlphaPattern.request" /\ pc = "returned")
        => \A i \in 1..Len(body.system.blocks) :
              body.system.blocks[i].cc => i = Len(body.system.blocks)

\* C3 amended: the last block of the outgoing system array carries
\* cache_control, no other block built by the pattern does, and a preserved
\* incoming slot 0 carries it exactly when it came in with it.
C3_CacheControlOnLastBuiltBlock ==
    (fn = "AlphaPattern.request" /\ pc = "returned")
        => /\ body.system.kind = "list"
           /\ \A i \in 1..Len(body.system.blocks) :
                 body.system.blocks[i].cc <=>
                    \/ i = Len(body.system.blocks)
                    \/ i = 1 /\ IncomingListSystem /\ body0.system.blocks[1].cc

C3_Witness ==
    /\ fn = "AlphaPattern.request" /\ pc = "returned"
    /\ IncomingListSystem /\ body0.system.blocks[1].cc
    /\ Len(body.system.blocks) >= 4

PipelineOrder == <<"compact", "scrub", "unwrap", "gather", "system", "memorables", "count_and_stash">>
InOrder(name) == \E i \in 1..Len(order) : order[i] = name

\* C4: the steps of one request complete in the fixed order compaction, scrub,
\* extraction, fetches, system build, memorables injection; a fetch runs only
\* between extraction and the join, and the join and everything after it
\* happen only when all three fetches have a result.
C4_FixedStepOrder ==
    fn = "AlphaPattern.request" =>
        /\ \A i \in 1..Len(order) :
              \E k \in i..Len(PipelineOrder) :
                 /\ order[i] = PipelineOrder[k]
                 /\ \A j \in 1..(i - 1) : \E k2 \in 1..(k - 1) : order[j] = PipelineOrder[k2]
        /\ \A i \in 1..Len(order) : i <= 6 => order[i] = PipelineOrder[i]
        /\ (fetched # Pending) => InOrder("unwrap")
        /\ InOrder("gather") =>
              fetched.hud # <<>> /\ fetched.capsule # <<>> /\ fetched.memorables # <<>>

C4_Witness ==
    /\ fn = "AlphaPattern.request" /\ pc = "returned"
    /\ Len(order) = 7
    /\ body # body0

\* the messages the injection step looked at
BeforeInjection == SubSeq(body.messages, 1, Len(body0.messages))
Appended == Len(body.messages) = Len(body0.messages) + 1
LastUser(messages) == messages[LastIdx(messages, IsUser)]

ToolResultOnly(messages) ==
    /\ LastIdx(messages, IsUser) # 0
    /\ LastUser(messages).ckind = "list"
    /\ \A k \in 1..Len(LastUser(messages).blocks) :
          LastUser(messages).blocks[k].type = "tool_result"

SomeToolResult(messages) ==
    /\ LastIdx(messages, IsUser) # 0
    /\ LastUser(messages).ckind = "list"
    /\ \E k \in 1..Len(LastUser(messages).blocks) :
          LastUser(messages).blocks[k].type = "tool_result"

Extractors ==
    {"unwrap_structured_input", "greatloom.metadata.extract_metadata",
     "loom.metadata.extract_metadata"}

RECURSIVE TextsOfBlocks(_, _)
TextsOfBlocks(role, blocks) ==
    IF blocks = <<>> THEN <<>>
    ELSE (IF Head(blocks).type = "text"
          THEN << [role |-> role, in |-> "block", text |-> Head(blocks).text] >> ELSE <<>>)
         \o TextsOfBlocks(role, Tail(blocks))

RECURSIVE TextsOf(_)
\* every string content and every text block of the messages, in order
TextsOf(messages) ==
    IF messages = <<>> THEN <<>>
    ELSE (IF Head(messages).ckind = "str"
          THEN << [role |-> Head(messages).role, in |-> "str", text |-> Head(messages).text] >>
          ELSE TextsOfBlocks(Head(messages).role, Head(messages).blocks))
         \o TextsOf(Tail(messages))

\* the six defenses, as the claim lists them
SixDefenses(x) ==
    /\ x.role = "user"
    /\ LET t == Strip(x.text) IN
       /\ t # <<>>
       /\ t[1] = "{" \/ t[1] \in JsonTokens
       /\ t[Len(t)] = "}" \/ t[Len(t)] \in JsonTokens
       /\ Loads(t) # <<>>
       /\ Loads(t)[1].canary # Absent
       /\ Loads(t)[1].canary = ALPHA_CANARY
       /\ Loads(t)[1].has_prompt

\* C5: unwrap_structured_input rewrites a text exactly when all six defenses
\* hold for it, and returns metadata exactly when some text passes them; a
\* text that only contains the canary is left as it is.
C5_RewritesIffSixDefenses ==
    (fn = "unwrap_structured_input" /\ pc = "once")
        => LET before == TextsOf(body0.messages)
               after == TextsOf(body.messages)
           IN /\ Len(after) = Len(before)
              /\ \A i \in 1..Len(before) :
                    /\ (after[i].text # before[i].text) <=> SixDefenses(before[i])
                    /\ SixDefenses(before[i]) =>
                          after[i].text = _build_unwrapped_text(Loads(Strip(before[i].text))[1])
              /\ (metadata # None) <=> \E i \in 1..Len(before) : SixDefenses(before[i])
              /\ \A i \in 1..Len(body0.messages) :
                    \A k \in 1..Len(body0.messages[i].blocks) :
                       body0.messages[i].blocks[k].type # "text"
                          => body.messages[i].blocks[k] = body0.messages[i].blocks[k]

C5_Witness ==
    /\ fn = "unwrap_structured_input" /\ pc = "once"
    /\ \E i \in 1..Len(TextsOf(body0.messages)) :
          /\ SixDefenses(TextsOf(body0.messages)[i])
          /\ TextsOf(body.messages)[i].text # TextsOf(body0.messages)[i].text
    /\ \E i \in 1..Len(TextsOf(body0.messages)) :
          /\ Mentions(TextsOf(body0.messages)[i].text, ALPHA_CANARY)
          /\ ~SixDefenses(TextsOf(body0.messages)[i])
          /\ TextsOf(body.messages)[i].text = TextsOf(body0.messages)[i].text

\* a valid envelope of the family the operation f extracts
ValidEnvelope(f, x) ==
    /\ x.role = "user"
    /\ CASE f = "unwrap_structured_input" -> SixDefenses(x)
         [] f = "greatloom.metadata.extract_metadata" ->
               Mentions(x.text, DELIVERATOR_CANARY) /\ LoadsBraceSlice(x.text) # <<>>
         [] OTHER ->
               /\ x.in = "block"
               /\ Mentions(x.text, CANARY) /\ Mentions(x.text, HOOK_PREFIX)
               /\ LoadsBraceSlice(x.text) # <<>>

EnvelopeMeta(f, x) ==
    IF f = "unwrap_structured_input" THEN StructuredMeta(Loads(Strip(x.text))[1])
    ELSE LoadsBraceSlice(x.text)[1]

\* C6: when several user messages carry a valid envelope, extraction cleans
\* every one of them and returns the metadata of the last one in message order.
C6_AllCleanedLastReturned ==
    (fn \in Extractors /\ pc = "once")
        => LET before == TextsOf(body0.messages)
               after == TextsOf(body.messages)
               valid == {i \in 1..Len(before) : ValidEnvelope(fn, before[i])}
           IN /\ \A i \in 1..Len(after) : ~ValidEnvelope(fn, after[i])
              /\ valid # {} =>
                    metadata = <<EnvelopeMeta(fn, before[CHOOSE i \in valid : \A j \in valid : j <= i])>>

\* C7: extraction applied to the output of an extraction changes nothing and
\* returns no metadata.
C7_SecondExtractionIsNoop ==
    (fn \in Extractors /\ pc = "twice") => (body = body1 /\ metadata = None)

CountText(texts, x) == Cardinality({i \in 1..Len(texts) : texts[i] = x})

FamilyCanary == IF fn = "greatloom.metadata.extract_metadata" THEN DELIVERATOR_CANARY ELSE CANARY
Spoof(x) ==
    x.role = "user" /\ x.in = "block"
    /\ Mentions(x.text, FamilyCanary) /\ ~Mentions(x.text, HOOK_PREFIX)
Genuine(x) ==
    x.role = "user" /\ Mentions(x.text, FamilyCanary) /\ Mentions(x.text, HOOK_PREFIX)

\* C8: a user text block that contains the canary without the prefix
\* "UserPromptSubmit hook additional context:" is neither removed nor
\* rewritten, and the returned metadata never comes from it.
C8_NoPrefixNeverAccepted ==
    (fn \in {"greatloom.metadata.extract_metadata", "loom.metadata.extract_metadata"}
        /\ pc = "once")
        => /\ \A i \in 1..Len(TextsOf(body0.messages)) :
                 Spoof(TextsOf(body0.messages)[i])
                    => CountText(TextsOf(body.messages), TextsOf(body0.messages)[i])
                          >= CountText(TextsOf(body0.messages), TextsOf(body0.messages)[i])
           /\ metadata # None =>
                 \E i \in 1..Len(TextsOf(body0.messages)) :
                    /\ Genuine(TextsOf(body0.messages)[i])
                    /\ LoadsBraceSlice(TextsOf(body0.messages)[i].text) = metadata

\* what the scan identifies in one piece of text, decided block by block
\* without any index: <<>> for no canary block, else <<sent_at>>
Identified(text) ==
    IF DelivFound(text) = <<>> THEN <<>> ELSE <<DelivFound(text)[1].sent_at>>

RECURSIVE BlocksCleaned(_)
\* every identified block replaced by its timestamp, or left out when it has
\* no sent_at; every other block as it was, in the same order
BlocksCleaned(blocks) ==
    IF blocks = <<>> THEN <<>>
    ELSE LET block == Head(blocks)
             id == IF IsText(block) THEN Identified(block.text) ELSE <<>>
         IN (IF id = <<>> THEN <<block>>
             ELSE IF id[1] # <<>> THEN <<[block EXCEPT !.text = Timestamp(id[1])]>>
             ELSE <<>>)
            \o BlocksCleaned(Tail(blocks))

RECURSIVE MessagesCleaned(_)
MessagesCleaned(messages) ==
    IF messages = <<>> THEN <<>>
    ELSE LET msg == Head(messages) IN
         (IF ~IsUser(msg) THEN <<msg>>
          ELSE IF msg.ckind = "str"
          THEN LET id == Identified(msg.text) IN
               IF id = <<>> THEN <<msg>>
               ELSE IF id[1] # <<>> THEN <<StrMsg(msg.role, Timestamp(id[1]))>>
               ELSE <<>>
          ELSE LET content == BlocksCleaned(msg.blocks) IN
               IF content = <<>> /\ msg.blocks # <<>> THEN <<>>
               ELSE <<[msg EXCEPT !.blocks = content]>>)
         \o MessagesCleaned(Tail(messages))

\* C39: greatloom.metadata.extract_metadata changes exactly the blocks the
\* scan identified: each becomes its timestamp or is removed, a message is
\* removed only when nothing is left of it, and every other block and
\* message is returned as it was and in the same order.
C39_TransformsHitIdentifiedBlocks ==
    (fn = "greatloom.metadata.extract_metadata" /\ pc = "once")
        => body.messages = MessagesCleaned(body0.messages)

\* a message with a canary block without sent_at before one with sent_at,
\* after a message that was removed
C39_Witness ==
    /\ fn = "greatloom.metadata.extract_metadata"
    /\ pc = "once"
    /\ Len(body0.messages) = 2
    /\ Len(body.messages) = 1
    /\ body0.messages[2].ckind = "list"
    /\ LET found == DelivScanBlocks(body0.messages[2].blocks, 2, 1) IN
       /\ Len(found) = 2
       /\ found[1].object.sent_at = <<>>
       /\ found[2].object.sent_at # <<>>

\* C10: rewrite_auto_compact applied twice gives what it gives applied once.
C10_RewriteIdempotent ==
    (fn = "rewrite_auto_compact" /\ pc = "twice") => body = body1

NotUser(m) == ~IsUser(m)
Finished ==
    \/ fn = "AlphaPattern.request" /\ pc = "returned"
    \/ fn # "AlphaPattern.request" /\ pc = "once"

\* C2 as stated: no component removes, reorders or changes the role of a
\* message; at most one synthetic user message is appended at the end and only
\* user messages change.
C2_NoMessageRemoved ==
    Finished
        => /\ \/ Roles(body.messages) = Roles(body0.messages)
              \/ Roles(body.messages) = Roles(body0.messages) \o <<"user">>
           /\ \A i \in 1..Len(body0.messages) :
                 (i <= Len(body.messages) /\ ~IsUser(body0.messages[i]))
                    => body.messages[i] = body0.messages[i]

DelivEmpty(text) == DelivFound(text) # <<>> /\ DelivFound(text)[1].sent_at = <<>>

\* a user message that is nothing but DELIVERATOR envelopes without sent_at
OnlyEmptyEnvelopes(m) ==
    /\ IsUser(m)
    /\ \/ m.ckind = "str" /\ DelivEmpty(m.text)
       \/ /\ m.ckind = "list" /\ m.blocks # <<>>
          /\ \A k \in 1..Len(m.blocks) : IsText(m.blocks[k]) /\ DelivEmpty(m.blocks[k].text)
KeptByExtract(m) == ~OnlyEmptyEnvelopes(m)

\* C2 amended: the compaction rewriter, the noise scrubber, the alpha and
\* LOOM extractors and the memorables injection keep every message in place
\* with its role (AlphaPattern.request appends at most one user message); the
\* DELIVERATOR extractor drops exactly the user messages that consist only of
\* envelopes without sent_at and keeps the others in order with their roles;
\* messages of other roles are never changed.
C2_OnlyEmptyEnvelopeMessagesRemoved ==
    Finished
        => /\ fn = "AlphaPattern.request" =>
                 \/ Roles(body.messages) = Roles(body0.messages)
                 \/ Roles(body.messages) = Roles(body0.messages) \o <<"user">>
           /\ fn \notin {"AlphaPattern.request", "greatloom.metadata.extract_metadata"} =>
                 Roles(body.messages) = Roles(body0.messages)
           /\ fn = "greatloom.metadata.extract_metadata" =>
                 Roles(body.messages) = Roles(SelectSeq(body0.messages, KeptByExtract))
           /\ SelectSeq(body.messages, NotUser) = SelectSeq(body0.messages, NotUser)

C2_Witness ==
    /\ fn = "greatloom.metadata.extract_metadata" /\ pc = "once"
    /\ Len(body.messages) = 1
    /\ Len(body0.messages) = 2
    /\ \E i \in 1..2 : body0.messages[i].ckind = "list" /\ Len(body0.messages[i].blocks) = 2
                       /\ OnlyEmptyEnvelopes(body0.messages[i])

-----------------------------------------------------------------------------
(* loom/compact.py: the rewriter of the first generation *)

\* ALPHA_COMPACT_PROMPT: the prompt file read at import, or the fallback
\* string when the file is not found
ALPHA_COMPACT_PROMPT(compact) ==
    IF compact = <<>> THEN FALLBACK_COMPACT_PROMPT ELSE compact[1]

\* the last user message only; a list content falls through to the final
\* return when no block has the signature
loom_replace_compact_instructions(messages, compact) ==
    LET m == LastIdx(messages, IsUser) IN
    IF m = 0 THEN messages
    ELSE IF messages[m].ckind = "str"
    THEN IF In(COMPACT_INSTRUCTIONS_START, messages[m].text)
         THEN [messages EXCEPT ![m].text = CutAtInstructions(@, ALPHA_COMPACT_PROMPT(compact))]
         ELSE messages
    ELSE LET b == FirstIdx(messages[m].blocks, HasInstructions) IN
         IF b = 0 THEN messages
         ELSE [messages EXCEPT ![m].blocks[b].text =
                                  CutAtInstructions(@, ALPHA_COMPACT_PROMPT(compact))]

\* phases 1 and 2 inside "if is_auto_compact", phase 3 after it
loom_rewrite_auto_compact(b, compact) ==
    LET is_auto_compact == _detect_auto_compact(b.system)
        system1 == IF is_auto_compact THEN _replace_system_prompt(b.system) ELSE b.system
        messages2 == IF is_auto_compact
                     THEN loom_replace_compact_instructions(b.messages, compact)
                     ELSE b.messages
    IN [system |-> system1, messages |-> _replace_continuation_instruction(messages2)]

-----------------------------------------------------------------------------
(* The phases of the rewriter and the scrubber, each called on its own *)

RewriterSystems ==
    {NoSystem, StrSystem(<<"S1", "sdk">>), StrSystem(<<"soul">>),
     ListSystem(<<TextBlock(<<"billing">>), TextBlock(<<"S1", "sdk">>)>>),
     ListSystem(<<TextBlock(<<"billing">>), TextBlock(<<"soul">>)>>)}

NAG == <<"TW_OPEN", "nag", "TW_CLOSE">>

ScrubMessages ==
    {StrMsg("user", <<HOOK_SUCCESS>>),
     ListMsg("user", <<TextBlock(<<HOOK_SUCCESS>>), TextBlock(<<"hi">>)>>),
     ListMsg("user", <<TextBlock(<<"a">>), TextBlock(<<START_SUCCESS>>), TextBlock(<<"b">>)>>),
     ListMsg("user", <<TextBlock(<<"hi">> \o NAG)>>),
     ListMsg("user", <<TextBlock(NAG), TextBlock(<<"hi">>)>>),
     ListMsg("user", <<TextBlock(<<"ws">> \o NAG \o <<"n">>)>>),
     ListMsg("user", <<TextBlock(<<HOOK_SUCCESS>> \o NAG)>>),
     ListMsg("user", <<TextBlock(<<"MW_OPEN">> \o NAG \o <<"MW_CLOSE">>), ToolUse>>),
     ListMsg("user", <<TextBlock(<<"FM_OPEN", "path", "FM_MODIFIED", "FM_CHANGES", "code",
                                "</system-reminder>", "kept">>)>>),
     ListMsg("user", <<ToolResult("list", <<NAG>>)>>),
     ListMsg("user", <<ToolResult("list", <<<<"out">> \o NAG, <<"ws">>>>), TextBlock(<<"hi">>)>>),
     ListMsg("user", <<ToolResult("str", <<NAG>>)>>),
     ListMsg("assistant", <<TextBlock(<<HOOK_SUCCESS>>), TextBlock(NAG)>>),
     StrMsg("assistant", NAG)}

InitOp ==
    \/ InitRun("_replace_compact_instructions", CompactMessages, {NoSystem}, CompactStores)
    \/ InitRun("_replace_continuation_instruction", CompactMessages, {NoSystem}, OneStore)
    \/ InitRun("rewrite_auto_compact", CompactMessages, RewriterSystems, CompactStores)
    \/ InitRun("loom.compact.rewrite_auto_compact", CompactMessages, RewriterSystems, CompactStores)
    \/ InitRun("scrub_noise", ScrubMessages, {NoSystem}, OneStore)

ApplyCompactInstructions ==
    /\ fn = "_replace_compact_instructions"
    /\ Applied([body |-> [body EXCEPT !.messages = _replace_compact_instructions(@, store.compact)],
                metadata |-> None])

ApplyContinuation ==
    /\ fn = "_replace_continuation_instruction"
    /\ Applied([body |-> [body EXCEPT !.messages = _replace_continuation_instruction(@)],
                metadata |-> None])

ApplyLoomRewrite ==
    /\ fn = "loom.compact.rewrite_auto_compact"
    /\ Applied([body |-> loom_rewrite_auto_compact(body, store.compact), metadata |-> None])

ApplyScrub ==
    /\ fn = "scrub_noise"
    /\ Applied([body |-> scrub_noise(body), metadata |-> None])

NextOp ==
    \/ ApplyCompactInstructions
    \/ ApplyContinuation
    \/ ApplyRewrite
    \/ ApplyLoomRewrite
    \/ ApplyScrub

SpecOp == InitOp /\ [][NextOp]_vars

-----------------------------------------------------------------------------
(* Compaction phases *)

HasS2(text) == \E i \in 1..Len(text) : text[i] = "S2"

\* the text before the first S2, right-stripped, two newlines, then the
\* recovery document or the fallback string
CutExpected(text, compact) ==
    LET i == CHOOSE i \in 1..Len(text) : text[i] = "S2" /\ \A j \in 1..(i - 1) : text[j] # "S2"
    IN RStrip(SubSeq(text, 1, i - 1)) \o <<"nn">>
       \o (IF compact = None THEN FALLBACK_COMPACT_PROMPT ELSE compact[1])

S2Block(b) == b.type = "text" /\ HasS2(b.text)

\* what Phase 2 is to make of the last user message m
Phase2Expected(m, compact) ==
    IF m.ckind = "str"
    THEN IF HasS2(m.text) THEN [m EXCEPT !.text = CutExpected(@, compact)] ELSE m
    ELSE IF \E k \in 1..Len(m.blocks) : S2Block(m.blocks[k])
    THEN LET k == CHOOSE k \in 1..Len(m.blocks) :
                     S2Block(m.blocks[k]) /\ \A j \in 1..(k - 1) : ~S2Block(m.blocks[j])
         IN [m EXCEPT !.blocks[k].text = CutExpected(@, compact)]
    ELSE m

HasContinuation(text) ==
    In(CONTINUATION_INSTRUCTION_POLLUTED, text) \/ In(CONTINUATION_INSTRUCTION_ORIGINAL, text)

\* C12: after the rewrite no text of a user message contains the polluted
\* continuation variant or the SDK continuation sentence.
C12_NoContinuationLeft ==
    (fn \in {"rewrite_auto_compact", "loom.compact.rewrite_auto_compact",
             "_replace_continuation_instruction"} /\ pc = "once")
        => \A i \in 1..Len(TextsOf(body.messages)) :
              TextsOf(body.messages)[i].role = "user"
                 => ~HasContinuation(TextsOf(body.messages)[i].text)

IsLastUser(messages, i) ==
    messages[i].role = "user" /\ \A j \in (i + 1)..Len(messages) : messages[j].role # "user"

HasS2Text(m) ==
    IF m.ckind = "str" THEN HasS2(m.text)
    ELSE \E k \in 1..Len(m.blocks) : S2Block(m.blocks[k])

HasContinuationText(m) ==
    IF m.ckind = "str" THEN HasContinuation(m.text)
    ELSE \E k \in 1..Len(m.blocks) : m.blocks[k].type = "text" /\ HasContinuation(m.blocks[k].text)

\* C13: whatever the system prompt is, the rewriter rewrites the last user
\* message when S2 is present in it and every user message in which a
\* continuation instruction is present.
C13_PhasesIndependentOfS1 ==
    (fn \in {"rewrite_auto_compact", "loom.compact.rewrite_auto_compact"} /\ pc = "once")
        => /\ Len(body.messages) = Len(body0.messages)
           /\ \A i \in 1..Len(body0.messages) :
                 /\ (IsLastUser(body0.messages, i) /\ HasS2Text(body0.messages[i]))
                       => body.messages[i] # body0.messages[i]
                 /\ (body0.messages[i].role = "user" /\ HasContinuationText(body0.messages[i]))
                       => body.messages[i] # body0.messages[i]

-----------------------------------------------------------------------------
(* Noise scrubbing *)

\* C14: scrub_noise applied to its own output changes nothing.
C14_ScrubIdempotent ==
    (fn = "scrub_noise" /\ pc = "twice") => body = body1

Blank(text) == \A i \in 1..Len(text) : text[i] \in Ws

\* C15: after scrub_noise no text block of a user message, at the top level
\* or nested in the content list of a tool_result, has empty or
\* whitespace-only text.
C15_NoEmptyTextBlock ==
    (fn = "scrub_noise" /\ pc = "once")
        => \A i \in 1..Len(body.messages) :
              (body.messages[i].role = "user" /\ body.messages[i].ckind = "list")
                 => \A k \in 1..Len(body.messages[i].blocks) :
                       LET b == body.messages[i].blocks[k] IN
                       /\ b.type = "text" => ~Blank(b.text)
                       /\ (b.type = "tool_result" /\ b.nkind = "list")
                             => \A n \in 1..Len(b.ntexts) : ~Blank(b.ntexts[n])

\* o is what is left of the input block i, which is no noise block
LeftOf(o, i) ==
    /\ i \notin EXACT_NOISE_BLOCKS
    /\ o.type = i.type /\ o.cc = i.cc /\ o.nkind = i.nkind /\ Len(o.ntexts) = Len(i.ntexts)
    /\ i.type \notin {"text", "tool_result"} => o = i

RECURSIVE SurvivorsInOrder(_, _)
\* out is made of blocks left of blocks of in, in the order they have in in
SurvivorsInOrder(out, in) ==
    IF out = <<>> THEN TRUE
    ELSE IF in = <<>> THEN FALSE
    ELSE \/ LeftOf(Head(out), Head(in)) /\ SurvivorsInOrder(Tail(out), Tail(in))
         \/ SurvivorsInOrder(out, Tail(in))

C35_NoEmptyContentList ==
    (fn = "scrub_noise" /\ pc \in {"once", "twice"})
        => \A i \in 1..Len(body.messages) :
              (IsUser(body.messages[i]) /\ body.messages[i].ckind = "list"
                    /\ body0.messages[i].blocks # <<>>)
                 => body.messages[i].blocks # <<>>

-----------------------------------------------------------------------------
(* greatloom/router.py, patterns/passthrough.py *)

DEFAULT_PATTERN == <<"passthrough">>

\* _patterns after init_patterns()
init_patterns == {<<"passthrough">>, <<"iota">>, <<"alpha">>}

\* never falls back to the default
GetPatternNoFallback(_patterns, name) ==
    IF Truthy(name) THEN name[1] ELSE DEFAULT_PATTERN

\* name is None (<<>>) or a string (<<s>>); "name or DEFAULT_PATTERN"
get_pattern(_patterns, name) ==
    LET pattern_name == IF Truthy(name) THEN name[1] ELSE DEFAULT_PATTERN IN
    IF pattern_name \notin _patterns THEN DEFAULT_PATTERN ELSE pattern_name

get_pattern_from_request(_patterns, h) ==
    LET pattern_name == h["x-loom-pattern"] IN
    IF Truthy(pattern_name) THEN get_pattern(_patterns, pattern_name)
    ELSE get_pattern(_patterns, Some(DEFAULT_PATTERN))

\* PassthroughPattern.request: (headers, body) as they are
passthrough_request(h, b) == [headers |-> h, body |-> b]

-----------------------------------------------------------------------------
(* greatloom/app.py: handle_request *)

COMPACT_JSON == "{\"model\": \"opus\", \"messages\": []}"
SPACED_JSON == "{ \"model\":\"opus\",\"messages\":[] }"
NULL_MESSAGES_JSON == "{\"model\": \"opus\", \"messages\": null}"

\* json.loads(body_bytes): the parsed value, or the exception it raises
JsonLoads(body_bytes) ==
    CASE body_bytes \in {COMPACT_JSON, SPACED_JSON} -> [raises |-> "", value |-> "dict"]
      [] body_bytes = NULL_MESSAGES_JSON -> [raises |-> "", value |-> "dict null messages"]
      [] body_bytes = "[1]" -> [raises |-> "", value |-> "list1"]
      [] body_bytes = "[]" -> [raises |-> "", value |-> "list0"]
      [] body_bytes = "null" -> [raises |-> "", value |-> "None"]
      [] body_bytes = "\\x80" -> [raises |-> "UnicodeDecodeError", value |-> "None"]
      [] OTHER -> [raises |-> "JSONDecodeError", value |-> "None"]

\* json.dumps(body).encode() of a parsed value
JsonDumps(value) ==
    CASE value = "dict" -> COMPACT_JSON
      [] value = "dict+" -> "{\"model\": \"opus\", \"messages\": [], \"system\": [...]}"
      [] value = "dict null messages" -> NULL_MESSAGES_JSON
      [] value = "list1" -> "[1]"
      [] value = "list0" -> "[]"
      [] OTHER -> "null"

\* Python truthiness of a parsed value
TruthyValue(value) == value \in {"dict", "dict+", "dict null messages", "list1"}
HasGet(value) == value \in {"dict", "dict+", "dict null messages"}
\* len(body.get("messages", [])) is defined
MessagesSized(value) == value # "dict null messages"

\* span.__exit__(None, None, None), root_span.end()
SpanExit(h) == [h EXCEPT !.span = "closed", !.span_exits = @ + 1]

BodyBytes == {"", COMPACT_JSON, SPACED_JSON, "not json", "\\x80", "[1]", "[]", "null"}
Paths == {<<"v1", "messages">>, <<"v1", "messages", "count_tokens">>, <<"v1", "models">>}
PatternHeaders == {None, Some(<<>>), Some(<<"alpha">>), Some(<<"iota">>), Some(<<"passthrough">>),
                   Some(<<"Alpha">>), Some(<<"nosuch">>)}

InitApp ==
    /\ pc = "received"
    /\ fn = "handle_request"
    /\ \E name \in PatternHeaders :
          headers = [h \in {"x-loom-pattern", "x-machine-name", "x-session-id", "x-loom-client"} |->
                       IF h = "x-loom-pattern" THEN name ELSE None]
    /\ \E method \in {"GET", "POST"}, path \in Paths, body_bytes \in BodyBytes :
          http = [NoHttp EXCEPT !.method = method, !.path = path,
                                !.received = body_bytes, !.body_bytes = body_bytes]
    /\ body = NoBody /\ body0 = NoBody /\ body1 = NoBody
    /\ metadata = None
    /\ store \in OneStore
    /\ fetched = Pending
    /\ system_blocks = <<>>
    /\ order = <<>>
    /\ watch = NoWatch
    /\ trace_manager = NoTraces

is_messages_endpoint == http.method = "POST" /\ \E i \in 1..Len(http.path) : http.path[i] = "messages"

Step(next, h) ==
    /\ pc' = next
    /\ http' = h
    /\ UNCHANGED <<trace_manager, watch, fn, headers, body, body0, body1, metadata, store, fetched, system_blocks, order>>

\* lines 59-76: an exception other than JSONDecodeError leaves the handler
ParseBody ==
    /\ fn = "handle_request" /\ pc = "received"
    /\ IF is_messages_endpoint /\ http.body_bytes # ""
       THEN LET parsed == JsonLoads(http.body_bytes) IN
            CASE parsed.raises = "" -> Step("parsed", [http EXCEPT !.body = parsed.value])
              [] parsed.raises = "JSONDecodeError" -> Step("parsed", http)
              [] OTHER -> Step("failed", [http EXCEPT !.error = parsed.raises])
       ELSE Step("parsed", http)

\* lines 78-80
SelectPattern ==
    /\ fn = "handle_request" /\ pc = "parsed"
    /\ Step("selected", [http EXCEPT !.pattern = get_pattern_from_request(init_patterns, headers)])

\* lines 82-113: body.get(...) is evaluated when body is truthy; the span
\* is entered at 101, the try starts at 115
DescribeRequest ==
    /\ fn = "handle_request" /\ pc = "selected"
    /\ IF TruthyValue(http.body) /\ ~HasGet(http.body)
       THEN Step("failed", [http EXCEPT !.error = "AttributeError"])
       ELSE IF TruthyValue(http.body) /\ ~MessagesSized(http.body)
       THEN Step("failed", [http EXCEPT !.span = "open", !.error = "TypeError"])
       ELSE Step("described", [http EXCEPT !.span = "open"])

\* lines 115-119; the except clause at 192-199 re-raises
TransformRequest ==
    /\ fn = "handle_request" /\ pc = "described"
    /\ IF http.body = "None" THEN Step("transformed", http)
       ELSE IF http.pattern = <<"passthrough">>
       THEN Step("transformed",
                 [http EXCEPT !.transformed = TRUE,
                              !.body = passthrough_request(headers, http.body).body,
                              !.body_bytes = JsonDumps(passthrough_request(headers, http.body).body)])
       ELSE IF ~HasGet(http.body)
       THEN Step("failed", SpanExit([http EXCEPT !.transformed = TRUE, !.error = "AttributeError"]))
       ELSE Step("transformed",
                 [http EXCEPT !.transformed = TRUE, !.body = "dict+",
                              !.body_bytes = JsonDumps("dict+"),
                              !.token = IF http.pattern = <<"alpha">> /\ Truthy(headers["x-session-id"])
                                        THEN "pending" ELSE @])

\* lines 121-130
ForwardRequest ==
    /\ fn = "handle_request" /\ pc = "transformed"
    /\ Step("forwarded", [http EXCEPT !.forwarded = <<http.body_bytes>>, !.forwards = @ + 1])

NextApp ==
    \/ ParseBody
    \/ SelectPattern
    \/ DescribeRequest
    \/ TransformRequest
    \/ ForwardRequest

SpecApp == InitApp /\ [][NextApp]_vars

Registered(name) == name \in {<<"passthrough">>, <<"iota">>, <<"alpha">>}

\* C17: the selected pattern is the one registered under the value of the
\* x-loom-pattern header, and passthrough when the header is absent, empty or
\* names no registered pattern; selection never fails, and the passthrough
\* pattern hands the body on unchanged.
C17_PatternSelection ==
    (fn = "handle_request" /\ pc \notin {"received", "parsed"} /\ http.error # "UnicodeDecodeError")
        => /\ LET v == headers["x-loom-pattern"] IN
              IF v # None /\ Registered(v[1]) THEN http.pattern = v[1]
              ELSE http.pattern = <<"passthrough">>
           /\ (pc = "selected") => http.error = ""
           /\ (http.pattern = <<"passthrough">> /\ pc \in {"transformed", "forwarded"} /\ http.transformed)
                 => http.body = JsonLoads(http.received).value

C17_Witness ==
    /\ fn = "handle_request" /\ pc = "forwarded"
    /\ headers["x-loom-pattern"] = Some(<<"nosuch">>)
    /\ http.pattern = <<"passthrough">>
    /\ http.transformed

\* C18: the request transform runs only for a POST whose path contains
\* "messages" and whose body parses as JSON; in every other case the bytes
\* forwarded are the bytes received and the request does not fail.
C18_RawForwardOtherwise ==
    LET eligible == /\ http.method = "POST"
                    /\ \E i \in 1..Len(http.path) : http.path[i] = "messages"
                    /\ http.received \in {COMPACT_JSON, SPACED_JSON, "[1]", "[]", "null"}
    IN (fn = "handle_request")
          => /\ http.transformed => eligible
             /\ ~eligible => /\ pc # "failed"
                             /\ pc = "forwarded" => http.forwarded = <<http.received>>

-----------------------------------------------------------------------------
(* Envelopes whose fields are not of the expected JSON type *)

WellItem == [dict |-> TRUE, content |-> "str", score |-> "float", created_at |-> "str"]

\* the JSON types inside an envelope; the session ids t1..t6 mark the
\* envelopes that are not well typed
PyTypes(envelope) ==
    LET typed(mem, items, sid) == [memories |-> mem, items |-> items, session_id |-> sid] IN
    CASE envelope.session_id = "t1" -> typed("null", <<>>, "str")
      [] envelope.session_id = "t2" -> typed("list", <<[WellItem EXCEPT !.dict = FALSE]>>, "str")
      [] envelope.session_id = "t3" -> typed("list", <<[WellItem EXCEPT !.score = "str"]>>, "str")
      [] envelope.session_id = "t4" -> typed("list", <<[WellItem EXCEPT !.content = "null"]>>, "str")
      [] envelope.session_id = "t5" -> typed("list", <<[WellItem EXCEPT !.created_at = "int"]>>, "str")
      [] envelope.session_id = "t6" -> typed("list", <<>>, "int")
      [] OTHER -> typed("list", [i \in 1..Len(envelope.memories) |-> WellItem], "str")

\* the exception _format_memory_inline raises, "" when it returns:
\* memory.get, content.strip() and f"{score:.2f}"; pendulum.parse is inside
\* try/except Exception
FormatMemoryRaises(item) ==
    IF ~item.dict THEN "AttributeError"
    ELSE IF item.content # "str" THEN "AttributeError"
    ELSE IF item.score = "str" THEN "ValueError"
    ELSE ""

\* the exception _build_unwrapped_text raises, "" when it returns
BuildRaises(envelope) ==
    LET t == PyTypes(envelope)
        bad == {i \in 1..Len(t.items) : FormatMemoryRaises(t.items[i]) # ""}
    IN IF t.memories # "list" \/ t.items = <<>> THEN ""
       ELSE IF bad = {} THEN ""
       ELSE FormatMemoryRaises(t.items[CHOOSE i \in bad : \A j \in bad : i <= j])

\* len(x.get("memories", []))
LenMemoriesRaises(envelope) ==
    IF PyTypes(envelope).memories = "null" THEN "TypeError" ELSE ""

\* the exception unwrap_structured_input raises, "" when it returns
UnwrapRaises(b) ==
    LET found == EnvelopesIn(b.messages)
        bad == {i \in 1..Len(found) : BuildRaises(found[i]) # ""}
    IN IF bad # {} THEN BuildRaises(found[CHOOSE i \in bad : \A j \in bad : i <= j])
       ELSE IF found # <<>> THEN LenMemoriesRaises(found[Len(found)])
       ELSE ""

\* greatloom/metadata.py 124-130: session_id[:8] and len(memories)
DelivExtractRaises(b) ==
    LET found == extract_metadata(b).metadata IN
    IF found = <<>> \/ found[1] = EmptyObj THEN ""
    ELSE IF PyTypes(found[1]).session_id = "int" THEN "TypeError"
    ELSE LenMemoriesRaises(found[1])

\* loom/metadata.py 59-66: metadata.get('session_id', '?')[:8] when log is set;
\* the except clause names ValueError and JSONDecodeError
LoomExtractRaises(b, log) ==
    LET found == loom_extract_metadata(b).metadata IN
    IF found = <<>> \/ ~log THEN ""
    ELSE IF PyTypes(found[1]).session_id = "int" THEN "TypeError"
    ELSE ""

TypedAlphaTexts ==
    {<<"hi">>, <<"{alpha s1}">>, <<"{alpha s3 mem}">>, <<"{alpha memories null}">>,
     <<"{alpha memory str}">>, <<"{alpha score str}">>, <<"{alpha content null}">>,
     <<"{alpha created_at int}">>, <<"{alpha session int}">>}
TypedDelivTexts ==
    {<<"hi">>, <<HOOK_PREFIX, "{deliv s1 t1}">>, <<HOOK_PREFIX, "{deliv session int}">>,
     <<HOOK_PREFIX, "{deliv memories null}">>}
TypedLoomTexts ==
    {<<"hi">>, <<HOOK_PREFIX, "{loom s1}">>, <<HOOK_PREFIX, "{loom session int}">>}

TypedMessages(texts) ==
    {StrMsg("user", t) : t \in texts}
    \cup {ListMsg("user", <<TextBlock(t)>>) : t \in texts}
    \cup {StrMsg("assistant", <<"ok">>)}

InitEnvelope ==
    \/ InitRun("unwrap_structured_input", TypedMessages(TypedAlphaTexts), {NoSystem}, OneStore)
    \/ InitRun("greatloom.metadata.extract_metadata", TypedMessages(TypedDelivTexts), {NoSystem}, OneStore)
    \/ InitRun("loom.metadata.extract_metadata", TypedMessages(TypedLoomTexts), {NoSystem}, OneStore)

\* the call raises, or returns its result
Called(raises, result) ==
    IF raises # ""
    THEN /\ pc \in {"input", "once"}
         /\ pc' = "failed"
         /\ http' = [http EXCEPT !.error = raises]
         /\ UNCHANGED <<trace_manager, watch, fn, headers, body, body0, body1, metadata, store, fetched,
                        system_blocks, order>>
    ELSE Applied(result)

CallUnwrap ==
    /\ fn = "unwrap_structured_input"
    /\ Called(UnwrapRaises(body), unwrap_structured_input(body))

CallExtract ==
    /\ fn = "greatloom.metadata.extract_metadata"
    /\ Called(DelivExtractRaises(body), extract_metadata(body))

CallLoomExtract ==
    /\ fn = "loom.metadata.extract_metadata"
    /\ \E log \in BOOLEAN : Called(LoomExtractRaises(body, log), loom_extract_metadata(body))

NextEnvelope ==
    \/ CallUnwrap
    \/ CallExtract
    \/ CallLoomExtract

SpecEnvelope == InitEnvelope /\ [][NextEnvelope]_vars

\* C19: whatever the types and values of the fields of a valid envelope,
\* extraction completes.
C19_ExtractionNeverRaises ==
    (fn \in Extractors) => (pc # "failed" /\ http.error = "")

-----------------------------------------------------------------------------
(* AlphaPattern.request under failing fetches *)

\* every combination of a failed connection, failed keys, a failed
\* memorables read, a failed or short summaries query, and context files
FetchStores ==
    {Backend(Kv(down, failing, FullHud, <<<<"remember X">>>>), summaries, context, None) :
        down \in BOOLEAN,
        failing \in SUBSET (HudKeys \cup {"memorables"}),
        summaries \in {DbDown, <<None, None>>, <<None, Some(<<"last night">>)>>,
                       <<Some(<<"yesterday">>), Some(<<"last night">>)>>},
        context \in {NoContext, SomeContext}}

InitFetch ==
    /\ pc = "request"
    /\ fn = "AlphaPattern.request"
    /\ headers \in AlphaHeaders
    /\ body = [system |-> ListSystem(<<Plain("billing"), Plain("sdk")>>),
               messages |-> <<StrMsg("user", <<"hi">>)>>]
    /\ body0 = body
    /\ body1 = NoBody
    /\ metadata = None
    /\ store \in FetchStores
    /\ fetched = Pending
    /\ system_blocks = <<>>
    /\ order = <<>>
    /\ watch = NoWatch
    /\ trace_manager = NoTraces
    /\ http = NoHttp

SpecFetch == InitFetch /\ [][Next]_vars

Built == fn = "AlphaPattern.request" /\ pc \in {"system", "memorables", "returned"}

\* the key was read from the key-value store
Fetched(k) == ~store.kv.down /\ k \notin store.kv.failing /\ Truthy(store.kv.hud[k])

SummaryTexts ==
    IF store.summaries = DbDown THEN {}
    ELSE {store.summaries[i][1] : i \in {j \in 1..2 : store.summaries[j] # None}}

Section(block) ==
    IF block.type # "text" \/ block.text = <<>> THEN "other"
    ELSE IF block.text = <<"# Alpha", "nn">> \o store.soul THEN "identity"
    ELSE IF block.text[1] = "## Here" THEN "here"
    ELSE IF block.text[1] = "## Letter from last night" THEN "to_self"
    ELSE IF block.text[1] = "## Today so far (" THEN "today_so_far"
    ELSE IF block.text[1] = "## Events" THEN "calendar"
    ELSE IF block.text[1] = "## Todos" THEN "todos"
    ELSE IF block.text[1] \in {"## Context: ", "## Context available"} THEN "context"
    ELSE IF block.text \in SummaryTexts THEN "summary"
    ELSE "other"

Contains(text, part) ==
    \E j \in 0..(Len(text) - Len(part)) : SubSeq(text, j + 1, j + Len(part)) = part

MachineLine == <<"**Machine:** ">> \o Header(headers, "x-machine-name", <<"unknown">>)

\* the identity block first, one Here block naming the machine, a section
\* only for data that was fetched, nothing else
SectionsFetched ==
    /\ Len(system_blocks) >= 2
    /\ Section(system_blocks[1]) = "identity"
    /\ Cardinality({i \in 1..Len(system_blocks) : Section(system_blocks[i]) = "here"}) = 1
    /\ \A i \in 1..Len(system_blocks) :
          LET sec == Section(system_blocks[i]) IN
          /\ sec # "other"
          /\ sec \in {"to_self", "today_so_far", "calendar", "todos"} => Fetched(sec)
          /\ sec = "here" =>
                /\ Contains(system_blocks[i].text, MachineLine)
                /\ Contains(system_blocks[i].text, <<"sunny">>) => Fetched("weather")

AllStoresDown == store.kv.down /\ store.summaries = DbDown

\* C20: whatever fetches fail, the built blocks hold the identity block and
\* one Here block with the machine name, a section only for fetched data and
\* no placeholder; with the key-value store and the summaries database down
\* they are the identity block, the Here block and the blocks of the context
\* files, which are read from the filesystem.  A request that has not
\* returned can always take its next step.
C20_DegradedBlocks ==
    /\ (fn = "AlphaPattern.request" /\ pc # "returned") => ENABLED Next
    /\ Built => SectionsFetched
    /\ (Built /\ AllStoresDown) =>
          /\ Section(system_blocks[2]) = "here"
          /\ \A i \in 3..Len(system_blocks) : Section(system_blocks[i]) = "context"

C20_Witness ==
    /\ pc = "returned"
    /\ AllStoresDown
    /\ Len(system_blocks) > 2

\* C20 as stated: with every store down the built blocks are exactly the
\* identity block and the Here block.
C20_AllDownOnlyIdentityAndHere ==
    /\ Built => SectionsFetched
    /\ (Built /\ AllStoresDown) =>
          /\ Len(system_blocks) = 2
          /\ Section(system_blocks[2]) = "here"

\* the place of a built block in the order of lines 266-324
Rank(block) ==
    LET sec == Section(block) IN
    CASE sec = "identity" -> 1
      [] sec = "summary" ->
            IF store.summaries[1] # None /\ block.text = store.summaries[1][1] THEN 2 ELSE 3
      [] sec = "to_self" -> 4
      [] sec = "today_so_far" -> 5
      [] sec = "here" -> 6
      [] sec = "context" -> IF block.text[1] = "## Context: " THEN 7 ELSE 8
      [] sec = "calendar" -> 9
      [] sec = "todos" -> 10
      [] OTHER -> 0

Ranks == {Rank(system_blocks[i]) : i \in 1..Len(system_blocks)}

\* C31: the built blocks start with the identity block, hold the Here block,
\* and follow the order identity, older summary, newer summary, letter,
\* today so far, Here, context files, context hints, events, todos; only
\* context file blocks repeat.
C31_BlocksInFixedOrder ==
    Built =>
        /\ Rank(system_blocks[1]) = 1
        /\ 6 \in Ranks
        /\ 0 \notin Ranks
        /\ \A i, j \in 1..Len(system_blocks) :
              i < j => \/ Rank(system_blocks[i]) < Rank(system_blocks[j])
                       \/ Rank(system_blocks[i]) = 7 /\ Rank(system_blocks[j]) = 7

C31_Witness ==
    /\ pc = "returned"
    /\ fn = "AlphaPattern.request"
    /\ Ranks = 1..10

-----------------------------------------------------------------------------
(* AlphaPattern.request on envelopes whose prompt is spelled out *)

RawPrompts ==
    {<<"hello">>, <<"what", "S2", "x">>, <<"what", "TW_OPEN", "x", "TW_CLOSE", "x">>,
     <<"TW_OPEN", "TW_CLOSE">>}

RawEnvelope(prompt) == <<ENV_OPEN>> \o prompt \o <<ENV_CLOSE>>

RawMessages ==
    {<<m>> : m \in {StrMsg("user", RawEnvelope(p)) : p \in RawPrompts}
                   \cup {ListMsg("user", <<TextBlock(RawEnvelope(p))>>) : p \in RawPrompts}}
    \cup {<<ListMsg("user", <<TextBlock(RawEnvelope(p))>>), StrMsg("assistant", <<"ok">>),
            StrMsg("user", <<"hi">>)>> : p \in RawPrompts}

InitRaw ==
    /\ pc = "request"
    /\ fn = "AlphaPattern.request"
    /\ headers \in AlphaHeaders
    /\ \E sys \in {ListSystem(<<Plain("billing"), Plain("sdk")>>), StrSystem(<<"S1", "sdk">>)},
          msgs \in RawMessages :
          body = [system |-> sys, messages |-> msgs]
    /\ body0 = body
    /\ body1 = NoBody
    /\ metadata = None
    /\ store \in AlphaStores
    /\ fetched = Pending
    /\ system_blocks = <<>>
    /\ order = <<>>
    /\ watch = NoWatch
    /\ trace_manager = NoTraces
    /\ http = NoHttp

SpecRaw == InitRaw /\ [][Next]_vars

\* what a valid envelope is delivered as: its prompt and memories, the
\* prompt as sent or with the noise patterns removed
Delivered(text) ==
    LET envelope == _is_metadata_envelope(text)[1] IN
    {_build_unwrapped_text(envelope), ScrubText(_build_unwrapped_text(envelope))}

\* C34: once unwrap_structured_input has run, every user text that was a
\* valid envelope in the incoming request is the unwrapped text of that
\* envelope.
C34_EnvelopeAlwaysUnwrapped ==
    (fn = "AlphaPattern.request" /\ pc \in {"gather", "joined", "system"}) =>
        \A m \in 1..Len(body0.messages) :
            LET was == body0.messages[m]
                is == body.messages[m]
            IN IsUser(was) =>
                  IF was.ckind = "str"
                  THEN _is_metadata_envelope(was.text) # <<>> => is.text \in Delivered(was.text)
                  ELSE /\ Len(is.blocks) = Len(was.blocks)
                       /\ \A b \in 1..Len(was.blocks) :
                             (IsText(was.blocks[b]) /\ _is_metadata_envelope(was.blocks[b].text) # <<>>)
                                => is.blocks[b].text \in Delivered(was.blocks[b].text)

-----------------------------------------------------------------------------
(* greatloom/app.py: handle_request, from the forward to the response *)

\* an upstream response: a stream of chunks when the content type is
\* text/event-stream, else a body; quota is the value of the
\* anthropic-ratelimit-unified-5h-utilization header
Upstream(status, sse, chunks, content, quota) ==
    [status |-> status, sse |-> sse, chunks |-> chunks, content |-> content, quota |-> quota]

Statuses == {200, 429, 500}
ChunkSeqs == {<<>>, <<"c1">>, <<"c1", "c2">>}
Contents == {COMPACT_JSON, "not json", "\\x80"}

UpstreamResponses ==
    {Upstream(st, TRUE, c, "", "absent") : st \in Statuses, c \in ChunkSeqs}
    \cup {Upstream(st, FALSE, <<>>, b, "absent") : st \in Statuses, b \in Contents}

InitServe ==
    /\ pc = "received"
    /\ fn = "handle_request"
    /\ \E name \in {None, Some(<<"alpha">>)}, session \in {None, Some(<<"session">>)} :
          headers = [h \in {"x-loom-pattern", "x-machine-name", "x-session-id", "x-loom-client"} |->
                       IF h = "x-loom-pattern" THEN name
                       ELSE IF h = "x-session-id" THEN session ELSE None]
    /\ \E method \in {"GET", "POST"}, path \in {<<"v1", "messages">>, <<"v1", "models">>},
          body_bytes \in {"", COMPACT_JSON, NULL_MESSAGES_JSON, "\\x80", "[1]"} :
          http = [NoHttp EXCEPT !.method = method, !.path = path,
                                !.received = body_bytes, !.body_bytes = body_bytes]
    /\ body = NoBody /\ body0 = NoBody /\ body1 = NoBody
    /\ metadata = None
    /\ store \in OneStore
    /\ fetched = Pending
    /\ system_blocks = <<>>
    /\ order = <<>>
    /\ watch = NoWatch
    /\ trace_manager = NoTraces

\* lines 124-130: proxy.forward_request returns the response or raises
ReceiveUpstream ==
    /\ fn = "handle_request" /\ pc = "forwarded"
    /\ \/ Step("failed", SpanExit([http EXCEPT !.error = "ConnectError"]))
       \/ \E r \in UpstreamResponses : Step("responded", [http EXCEPT !.upstream = <<r>>])

\* lines 132-190: a StreamingResponse, or the body through pattern.response;
\* json.loads of the content is under "except json.JSONDecodeError"
Respond ==
    /\ fn = "handle_request" /\ pc = "responded"
    /\ LET r == http.upstream[1]
           parsed == JsonLoads(r.content)
       IN IF r.sse THEN Step("streaming", [http EXCEPT !.status = r.status])
          ELSE CASE parsed.raises = "" ->
                      Step("complete", SpanExit([http EXCEPT !.status = r.status,
                                                    !.callbacks = Append(@, "body"),
                                                    !.content = JsonDumps(parsed.value)]))
                 [] parsed.raises = "JSONDecodeError" ->
                      Step("complete", SpanExit([http EXCEPT !.status = r.status,
                                                    !.callbacks = Append(@, "None"),
                                                    !.content = r.content]))
                 [] OTHER -> Step("failed", SpanExit([http EXCEPT !.error = parsed.raises]))

\* lines 147-148 (loom/app.py 377-378): the generator yields the next chunk
YieldChunk ==
    /\ fn \in {"handle_request", "loom.handle_request"} /\ pc = "streaming"
    /\ Len(http.sent) < Len(http.upstream[1].chunks)
    /\ Step("streaming", [http EXCEPT !.sent = Append(@, http.upstream[1].chunks[Len(@) + 1])])

\* lines 149-160 (loom/app.py 380-411): the upstream stream is exhausted,
\* the code after the loop and the finally block run
StreamEnd ==
    /\ fn \in {"handle_request", "loom.handle_request"} /\ pc = "streaming"
    /\ Len(http.sent) = Len(http.upstream[1].chunks)
    /\ Step("closed", SpanExit([http EXCEPT
                 !.callbacks = IF fn = "handle_request" THEN Append(@, "None") ELSE @]))

\* the client goes away: a generator that has started is closed where it is
\* suspended and only its finally block (151-160, loom/app.py 407-411)
\* runs; a generator that was never iterated runs no code at all
ClientDisconnect ==
    /\ fn \in {"handle_request", "loom.handle_request"} /\ pc = "streaming"
    /\ \E started \in (IF http.sent = <<>> THEN BOOLEAN ELSE {TRUE}) :
          Step("closed", IF started THEN SpanExit([http EXCEPT !.error = "disconnect"])
                         ELSE [http EXCEPT !.error = "disconnect"])

\* alpha/token_count.py 28-111: what one run of the task does
count_and_stash(api_key, session_id, outcome, kv) ==
    IF ~api_key \/ session_id = <<>> THEN [raises |-> "", stash |-> FALSE]
    ELSE [raises |-> "", stash |-> outcome = "200 input_tokens" /\ kv = "up"]

CountOutcomes == {"200 input_tokens", "200", "500", "timeout", "error"}

\* the task created at alpha/__init__.py 399-400 runs
CountAndStash ==
    /\ fn = "handle_request" /\ http.token = "pending"
    /\ \E api_key \in BOOLEAN, outcome \in CountOutcomes, kv \in {"up", "down"} :
          LET r == count_and_stash(api_key, Header(headers, "x-session-id", <<>>), outcome, kv) IN
          /\ http' = [http EXCEPT !.token = IF r.raises = "" THEN "done" ELSE "raised",
                                  !.written = IF r.stash THEN Append(@, "duckpond:context") ELSE @]
          /\ UNCHANGED <<trace_manager, watch, pc, fn, headers, body, body0, body1, metadata, store, fetched,
                         system_blocks, order>>

-----------------------------------------------------------------------------
(* loom/app.py: handle_request from line 296, loom/quota.py *)

\* log_quota(headers) against the key-value store: returns, raises, or
\* blocks in the synchronous r.setex
log_quota(quota, kv) ==
    IF quota = "absent" THEN [blocks |-> FALSE, raises |-> "", written |-> FALSE]
    ELSE IF kv = "hung" THEN [blocks |-> TRUE, raises |-> "", written |-> FALSE]
    ELSE IF kv = "down" THEN [blocks |-> FALSE, raises |-> "", written |-> FALSE]
    ELSE [blocks |-> FALSE,
          raises |-> IF quota = "n/a" THEN "ValueError in log_quota" ELSE "",
          written |-> TRUE]

LoomUpstreamResponses ==
    {Upstream(st, TRUE, <<"c1">>, "", q) : st \in Statuses, q \in {"absent", "0.42", "n/a"}}
    \cup {Upstream(st, FALSE, <<>>, b, q) : st \in Statuses, b \in Contents, q \in {"absent", "0.42", "n/a"}}

\* the request body is parsed and its session id known; exists tells
\* whether the transcript file of the session is there
InitLoomServe ==
    /\ pc = "loom.prepared"
    /\ fn = "loom.handle_request"
    /\ \E session \in {None, Some(<<"session">>)} :
          headers = [h \in {"x-loom-pattern", "x-machine-name", "x-session-id", "x-loom-client"} |->
                       IF h = "x-session-id" THEN session ELSE None]
    /\ \E kv \in {"up", "down", "hung"}, exists \in BOOLEAN :
          http = [NoHttp EXCEPT !.method = "POST", !.path = <<"v1", "messages">>,
                                !.received = COMPACT_JSON, !.body_bytes = COMPACT_JSON,
                                !.body = "dict", !.kv = kv, !.span = "open",
                                !.watcher = IF exists THEN "none" ELSE "no transcript"]
    /\ body = NoBody /\ body0 = NoBody /\ body1 = NoBody
    /\ metadata = None
    /\ store \in OneStore
    /\ fetched = Pending
    /\ system_blocks = <<>>
    /\ order = <<>>
    /\ watch = NoWatch
    /\ trace_manager = NoTraces

\* lines 306-333: ensure_watcher creates the task and returns
LoomEnsureWatcher ==
    /\ fn = "loom.handle_request" /\ pc = "loom.prepared"
    /\ Step("loom.watched",
            [http EXCEPT !.watcher = IF Truthy(headers["x-session-id"]) /\ @ = "none"
                                     THEN "running" ELSE @])

\* the watcher task ends with an error of its own
WatcherFails ==
    /\ fn = "loom.handle_request" /\ http.watcher = "running"
    /\ http' = [http EXCEPT !.watcher = "dead"]
    /\ UNCHANGED <<trace_manager, watch, pc, fn, headers, body, body0, body1, metadata, store, fetched,
                   system_blocks, order>>

\* lines 335-353
LoomForward ==
    /\ fn = "loom.handle_request" /\ pc = "loom.watched"
    /\ \/ Step("failed", SpanExit([http EXCEPT !.forwards = @ + 1,
                                               !.forwarded = <<http.body_bytes>>,
                                               !.error = "ConnectError"]))
       \/ \E r \in LoomUpstreamResponses :
             Step("loom.forwarded", [http EXCEPT !.forwards = @ + 1,
                                                 !.forwarded = <<http.body_bytes>>,
                                                 !.upstream = <<r>>])

\* line 356: called in the handler, before the response is built
LoomLogQuota ==
    /\ fn = "loom.handle_request" /\ pc = "loom.forwarded"
    /\ LET r == log_quota(http.upstream[1].quota, http.kv) IN
       /\ ~r.blocks
       /\ LET h == [http EXCEPT !.written = IF r.written THEN Append(@, "quota") ELSE @,
                                !.error = r.raises]
          IN IF r.raises # "" THEN Step("failed", SpanExit(h)) ELSE Step("loom.logged", h)

\* lines 358-462
LoomRespond ==
    /\ fn = "loom.handle_request" /\ pc = "loom.logged"
    /\ LET r == http.upstream[1]
           parsed == JsonLoads(r.content)
       IN IF r.sse THEN Step("streaming", [http EXCEPT !.status = r.status])
          ELSE IF parsed.raises \in {"", "JSONDecodeError"}
          THEN Step("complete", SpanExit([http EXCEPT !.status = r.status, !.content = r.content]))
          ELSE Step("failed", SpanExit([http EXCEPT !.error = parsed.raises]))

\* the steps of the two handlers themselves
HandlerStep ==
    \/ NextApp
    \/ ReceiveUpstream
    \/ Respond
    \/ LoomEnsureWatcher
    \/ LoomForward
    \/ LoomLogQuota
    \/ LoomRespond

NextServe ==
    \/ HandlerStep
    \/ YieldChunk
    \/ StreamEnd
    \/ ClientDisconnect
    \/ CountAndStash
    \/ WatcherFails

SpecServe == (InitServe \/ InitLoomServe) /\ [][NextServe]_vars

Handlers == {"handle_request", "loom.handle_request"}

HandlerDone ==
    fn \in Handlers /\ pc \in {"streaming", "complete", "closed", "failed"}

\* the status the client sees: the framework answers 500 when the handler raises
ClientStatus == IF pc = "failed" THEN 500 ELSE http.status

\* C21: every request is forwarded upstream exactly once, and the status the
\* client gets is the upstream status, streaming or not.
C21_OneForwardStatusAsIs ==
    HandlerDone =>
        /\ http.forwards = 1
        /\ http.upstream # <<>> => ClientStatus = http.upstream[1].status

\* C30: a streamed response has yielded the upstream chunks unchanged and in
\* order, and when the stream has ended, by the upstream closing or by the
\* client disconnecting, pattern.response(headers, None) was called once.
C30_TerminalCallbackOnce ==
    (fn = "handle_request" /\ pc \in {"streaming", "closed"}) =>
        /\ Len(http.sent) <= Len(http.upstream[1].chunks)
        /\ http.sent = SubSeq(http.upstream[1].chunks, 1, Len(http.sent))
        /\ pc = "streaming" => http.callbacks = <<>>
        /\ pc = "closed" => http.callbacks = <<"None">>

\* C22: a handler that has not answered yet can always take its next step,
\* whatever the token-count task, the quota write and the watcher are doing.
C22_ResponseNeverWaits ==
    (fn \in Handlers /\ ~HandlerDone) => ENABLED HandlerStep

\* C23: count_and_stash never raises and writes the count only after a 200
\* with a session id; a failure of log_quota or of the watcher never fails
\* the request.
C23_SideFailuresSwallowed ==
    (fn \in Handlers) =>
        /\ http.token # "raised"
        /\ (\E i \in 1..Len(http.written) : http.written[i] = "duckpond:context")
              => Truthy(headers["x-session-id"])
        /\ pc = "failed" => http.error # "ValueError in log_quota"

\* C33: the span of a request is closed at most once, and exactly once when
\* the request is over: answered, failed, or its stream ended or abandoned.
C33_SpanClosedOnce ==
    (fn \in Handlers) =>
        /\ http.span_exits <= 1
        /\ (pc \in {"complete", "closed", "failed"} /\ http.span # "none")
              => http.span_exits = 1

-----------------------------------------------------------------------------
(* loom/watcher.py: one session, its registry entry, its watcher tasks *)

MaxTasks == 2
MaxEnsure == 2
MaxStops == 1
MaxLines == 2
MaxTime == 61
TickSeconds == 61
IDLE_TIMEOUT_SECONDS == 60

\* spawns whatever the registry holds
NeverInWatchers(w) == FALSE

\* session_id in _watchers
InWatchers(w) == w._watchers # <<>>

WatcherState(task, last_activity) ==
    [task |-> task, last_activity |-> last_activity, cancel_event |-> FALSE, file_pos |-> 0]

\* a task asyncio still has to run or resume
Live(t) == t.state # "done"

\* reads but reports the position it started from
TailKeepsPosition(file, exists, start_pos, fails) ==
    IF fails \/ ~exists \/ start_pos >= Len(file) THEN [new_pos |-> start_pos, lines |-> <<>>]
    ELSE [new_pos |-> start_pos, lines |-> SubSeq(file, start_pos + 1, Len(file))]

\* tail_file(filepath, start_pos): seek, read to the end, tell; an exception
\* gives (start_pos, []).  A seek past the end reads nothing and tell()
\* gives the position sought.
tail_file(file, exists, start_pos, fails) ==
    IF fails \/ ~exists THEN [new_pos |-> start_pos, lines |-> <<>>]
    ELSE IF start_pos >= Len(file) THEN [new_pos |-> start_pos, lines |-> <<>>]
    ELSE [new_pos |-> Len(file), lines |-> SubSeq(file, start_pos + 1, Len(file))]

InitWatch ==
    /\ pc = "watch"
    /\ fn = "watcher"
    /\ headers = [h \in {"x-machine-name", "x-session-id", "x-loom-client"} |-> None]
    /\ body = NoBody /\ body0 = NoBody /\ body1 = NoBody
    /\ metadata = None
    /\ store \in OneStore
    /\ fetched = Pending
    /\ system_blocks = <<>>
    /\ order = <<>>
    /\ http = NoHttp
    /\ watch = NoWatch
    /\ trace_manager = NoTraces

Watched(w) ==
    /\ fn = "watcher"
    /\ watch' = w
    /\ UNCHANGED <<pc, fn, headers, body, body0, body1, metadata, store, fetched,
                   system_blocks, order, http, trace_manager>>

\* lines 236-259, no await inside
EnsureWatcher ==
    /\ watch.ensures < MaxEnsure
    /\ IF InWatchers(watch)
       THEN Watched([watch EXCEPT !._watchers[1].last_activity = watch.now,
                                  !.ensures = @ + 1,
                                  !.ensure_live = Live(watch.tasks[watch._watchers[1].task])])
       ELSE /\ Len(watch.tasks) < MaxTasks
            /\ Watched([watch EXCEPT
                  !.tasks = Append(@, [state |-> "created", cancel |-> FALSE, file_pos |-> 0]),
                  !._watchers = <<WatcherState(Len(watch.tasks) + 1, watch.now)>>,
                  !.ensures = @ + 1,
                  !.ensure_live = TRUE])

\* lines 220-223
Finally(w, i) ==
    [w EXCEPT !._watchers = IF InWatchers(w) THEN <<>> ELSE @,
              !.tasks[i].state = "done"]

\* lines 145-162: the first run of the task.  A task cancelled before its
\* first run never executes its body.
RunWatcherStart(i) ==
    /\ watch.tasks[i].state = "created"
    /\ IF watch.tasks[i].cancel \/ ~watch.exists
       THEN Watched([watch EXCEPT !.tasks[i].state = "done"])
       ELSE Watched([watch EXCEPT
                !.tasks[i].state = "watching",
                !.tasks[i].file_pos = Len(watch.file),
                !._watchers = IF InWatchers(watch)
                              THEN <<[@[1] EXCEPT !.file_pos = Len(watch.file)]>> ELSE @])

\* lines 162-176: awatch yields a modification; the idle check, then the read
AwatchYields(i) ==
    /\ watch.tasks[i].state = "watching"
    /\ ~watch.tasks[i].cancel
    /\ watch.modified \/ watch.deleted
    /\ IF InWatchers(watch)
          /\ watch.now - watch._watchers[1].last_activity > IDLE_TIMEOUT_SECONDS
       THEN Watched([Finally(watch, i) EXCEPT !.modified = FALSE, !.deleted = FALSE])
       ELSE Watched([watch EXCEPT
                !.modified = FALSE, !.deleted = FALSE,
                !.tasks[i].state = IF watch.modified THEN "reading" ELSE @])

\* lines 176-214: tail_file returns, the lines are published, the position
\* kept; an exception of get_redis or publish is logged and the line dropped
TailFile(i) ==
    /\ watch.tasks[i].state = "reading"
    /\ ~watch.tasks[i].cancel
    /\ \E fails, publish_fails \in BOOLEAN :
          LET r == tail_file(watch.file, watch.exists, watch.tasks[i].file_pos, fails) IN
          /\ publish_fails => r.lines # <<>>
          /\ Watched([watch EXCEPT
              !.published = IF publish_fails THEN @ ELSE @ \o r.lines,
              !.publish_failed = @ \/ publish_fails,
              !.tasks[i].file_pos = r.new_pos,
              !.tasks[i].state = "watching",
              !._watchers = IF InWatchers(watch)
                            THEN <<[@[1] EXCEPT !.file_pos = r.new_pos]>> ELSE @,
              !.read_ok = ~fails /\ watch.exists,
              !.read_failed = @ \/ fails \/ ~watch.exists])

\* lines 218-223: an exception inside the loop
WatcherError(i) ==
    /\ watch.tasks[i].state = "reading"
    /\ ~watch.tasks[i].cancel
    /\ Watched(Finally(watch, i))

\* lines 216-223: CancelledError is thrown in where the task is suspended
TaskCancelled(i) ==
    /\ watch.tasks[i].state \in {"watching", "reading"}
    /\ watch.tasks[i].cancel
    /\ Watched(Finally(watch, i))

\* lines 268-276: returns at once for an unknown session and when the task
\* is already done, else waits for the task
StopWatcher ==
    /\ watch.stop.state = "idle"
    /\ watch.stop.calls < MaxStops
    /\ IF ~InWatchers(watch)
       THEN Watched([watch EXCEPT !.stop.calls = @ + 1])
       ELSE LET t == watch._watchers[1].task IN
            IF ~Live(watch.tasks[t])
            THEN Watched([watch EXCEPT !._watchers[1].cancel_event = TRUE,
                                       !.stop = [state |-> "idle", task |-> t,
                                                 calls |-> @.calls + 1, left |-> TRUE]])
            ELSE Watched([watch EXCEPT !._watchers[1].cancel_event = TRUE,
                                       !.tasks[t].cancel = TRUE,
                                       !.stop = [state |-> "awaiting", task |-> t,
                                                 calls |-> @.calls + 1, left |-> @.left]])

\* lines 275-280: the awaited task is done
StopReturns ==
    /\ watch.stop.state = "awaiting"
    /\ ~Live(watch.tasks[watch.stop.task])
    /\ Watched([watch EXCEPT
          !.stop.state = "idle",
          !.stop.left = @ \/ (InWatchers(watch) /\ watch._watchers[1].task = watch.stop.task)])

\* the transcript grows by one line
AppendLine ==
    /\ watch.exists
    /\ watch.lines < MaxLines
    /\ Watched([watch EXCEPT !.file = Append(@, watch.lines + 1), !.lines = @ + 1,
                             !.registered = IF InWatchers(watch)
                                            THEN @ \cup {watch.lines + 1} ELSE @,
                             !.modified = TRUE, !.read_ok = FALSE])

\* rotation or truncation: the transcript starts again empty
Truncate ==
    /\ watch.exists
    /\ watch.file # <<>>
    /\ Watched([watch EXCEPT !.file = <<>>, !.modified = TRUE, !.read_ok = FALSE])

DeleteFile ==
    /\ watch.exists
    /\ Watched([watch EXCEPT
          !.exists = FALSE, !.file = <<>>, !.deleted = TRUE, !.read_ok = FALSE])

\* time.time() advances
Tick ==
    /\ watch.now + TickSeconds <= MaxTime
    /\ Watched([watch EXCEPT !.now = @ + TickSeconds])

TaskStep(i) ==
    \/ RunWatcherStart(i)
    \/ AwatchYields(i)
    \/ TailFile(i)
    \/ TaskCancelled(i)

NextWatch ==
    \/ EnsureWatcher
    \/ StopWatcher
    \/ StopReturns
    \/ \E i \in 1..Len(watch.tasks) : RunWatcherStart(i)
    \/ \E i \in 1..Len(watch.tasks) : AwatchYields(i)
    \/ \E i \in 1..Len(watch.tasks) : TailFile(i)
    \/ \E i \in 1..Len(watch.tasks) : TaskCancelled(i)
    \/ \E i \in 1..Len(watch.tasks) : WatcherError(i)
    \/ AppendLine
    \/ Truncate
    \/ DeleteFile
    \/ Tick

SpecWatch == InitWatch /\ [][NextWatch]_vars

LiveTasks == {i \in 1..Len(watch.tasks) : Live(watch.tasks[i])}

\* C24: at most one watcher task of the session is running at any moment.
C24_AtMostOneWatcher ==
    (fn = "watcher") => Cardinality(LiveTasks) <= 1

C24_Witness ==
    /\ fn = "watcher"
    /\ Len(watch.tasks) = 2
    /\ LiveTasks = {2}
    /\ watch.stop.calls > 0

\* C25: when ensure_watcher has returned, a live watcher task of the session
\* exists.
C25_EnsureLeavesLiveWatcher ==
    (fn = "watcher") => watch.ensure_live

\* asyncio runs every task that can run, a pending stop_watcher resumes,
\* and time passes; nothing obliges the transcript to change
SpecWatchFair ==
    /\ SpecWatch
    /\ WF_vars(\E i \in 1..Len(watch.tasks) : TaskStep(i))
    /\ WF_vars(StopReturns)
    /\ WF_vars(Tick)

IdleElapsed ==
    /\ InWatchers(watch)
    /\ watch.now - watch._watchers[1].last_activity > IDLE_TIMEOUT_SECONDS

\* C26: the first watcher, once the idle timeout has elapsed and no
\* ensure_watcher call is left, eventually ends and leaves the registry.
C26_IdleWatcherExits ==
    (/\ fn = "watcher"
     /\ watch.ensures = MaxEnsure
     /\ Len(watch.tasks) >= 1
     /\ watch.tasks[1].state = "watching"
     /\ IdleElapsed)
        ~> (Len(watch.tasks) >= 1 /\ ~Live(watch.tasks[1]) /\ ~InWatchers(watch))

\* C27: no transcript line is published twice.
C27_NoLineTwice ==
    (fn = "watcher") =>
        \A a, b \in 1..Len(watch.published) :
            a # b => watch.published[a] # watch.published[b]

C27_Witness ==
    /\ fn = "watcher"
    /\ Len(watch.published) >= 2
    /\ watch.read_failed

\* C28: after a successful read the position of the watcher is the end of
\* the file, also when the file had shrunk below the stored position.
C28_ResumesAtNewEof ==
    (fn = "watcher" /\ watch.read_ok) =>
        \A i \in LiveTasks :
            watch.tasks[i].state = "watching" => watch.tasks[i].file_pos = Len(watch.file)

\* C29: when stop_watcher has returned, the task it stopped has ended and
\* the registry no longer holds its entry.
C29_StopClosesWatcher ==
    (fn = "watcher") =>
        /\ ~watch.stop.left
        /\ (watch.stop.state = "idle" /\ watch.stop.task # 0)
              => ~Live(watch.tasks[watch.stop.task])

\* nothing is left for the watcher to do: no change is pending, no task has
\* a read in hand or has still to start
Quiescent ==
    /\ ~watch.modified
    /\ \A i \in 1..Len(watch.tasks) : watch.tasks[i].state \in {"watching", "done"}

PublishedLines == {watch.published[a] : a \in 1..Len(watch.published)}

\* C38: once nothing is left to do, every line that was appended while a
\* watcher was registered, and that is still in the transcript, has been
\* published, provided that no read failed and stop_watcher was never called.
C38_RegisteredLinesPublished ==
    (/\ fn = "watcher"
     /\ Quiescent
     /\ ~watch.read_failed
     /\ watch.stop.calls = 0)
        => \A k \in watch.registered :
              (\E a \in 1..Len(watch.file) : watch.file[a] = k) => k \in PublishedLines

-----------------------------------------------------------------------------
(* greatloom/proxy.py filters, and the three handlers that forward headers *)

\* str.lower() of a header name
Lower(name) ==
    CASE name \in {"Host", "HOST", "host"} -> "host"
      [] name \in {"Content-Length", "content-length"} -> "content-length"
      [] name \in {"Content-Encoding", "content-encoding"} -> "content-encoding"
      [] name \in {"Transfer-Encoding", "TRANSFER-ENCODING"} -> "transfer-encoding"
      [] name = "X-Api-Key" -> "x-api-key"
      [] OTHER -> name

RequestNames == {"Host", "host", "Content-Length", "X-Api-Key", "traceparent"}
ResponseNames == {"Content-Encoding", "content-length", "Transfer-Encoding",
                  "TRANSFER-ENCODING", "content-type"}

\* a dict of headers: every header holds the value the sender gave it
HeaderDict(names, sender) == [k \in names |-> <<sender, k>>]

Restrict(d, keep) == [k \in keep |-> d[k]]

filter_request_headers(h) ==
    Restrict(h, {k \in DOMAIN h : Lower(k) \notin {"host", "content-length"}})

filter_response_headers(h) ==
    Restrict(h, {k \in DOMAIN h :
                    Lower(k) \notin {"content-encoding", "content-length", "transfer-encoding"}})

\* TraceContextTextMapPropagator().inject(headers); headers["x-session-id"] = session_id
Inject(h, session_id) ==
    LET names == DOMAIN h \cup {"traceparent"}
                 \cup (IF Truthy(session_id) THEN {"x-session-id"} ELSE {})
    IN [k \in names |->
          IF k \in {"traceparent", "x-session-id"} THEN <<"loom", k>> ELSE h[k]]

ProxyHandlers == {"greatloom.app.handle_request", "loom.app.handle_request", "loom.py proxy"}

InitProxy ==
    /\ pc = "proxy.received"
    /\ fn \in ProxyHandlers
    /\ \E session \in {None, Some(<<"session">>)} :
          headers = [h \in {"x-loom-pattern", "x-machine-name", "x-session-id", "x-loom-client"} |->
                       IF h = "x-session-id" THEN session ELSE None]
    /\ \E req \in SUBSET RequestNames :
          http = [NoHttp EXCEPT !.method = "POST", !.path = <<"v1", "messages">>,
                                !.request_headers = HeaderDict(req, "client")]
    /\ body = NoBody /\ body0 = NoBody /\ body1 = NoBody
    /\ metadata = None
    /\ store \in OneStore
    /\ fetched = Pending
    /\ system_blocks = <<>>
    /\ order = <<>>
    /\ watch = NoWatch
    /\ trace_manager = NoTraces

\* greatloom/app.py 122-130, loom/app.py 336-353, loom.py 125-137: the
\* headers of the upstream request, and the upstream's answer
ProxyForward ==
    /\ fn \in ProxyHandlers /\ pc = "proxy.received"
    /\ \E up \in SUBSET ResponseNames :
          Step("proxy.forwarded",
               [http EXCEPT
                  !.forward_headers =
                      IF fn = "loom.app.handle_request"
                      THEN Inject(filter_request_headers(http.request_headers),
                                  headers["x-session-id"])
                      ELSE filter_request_headers(http.request_headers),
                  !.forwards = @ + 1,
                  !.upstream_headers = HeaderDict(up, "upstream")])

\* greatloom/app.py 134 and 162-190, loom/app.py 360 and 411-462,
\* loom.py 147-157: the headers of the response to the client
ProxyRespond ==
    /\ fn \in ProxyHandlers /\ pc = "proxy.forwarded"
    /\ Step("proxy.responded",
            [http EXCEPT
               !.response_headers =
                   IF fn = "loom.py proxy" THEN http.upstream_headers
                   ELSE filter_response_headers(http.upstream_headers)])

NextProxy ==
    \/ ProxyForward
    \/ ProxyRespond

SpecProxy == InitProxy /\ [][NextProxy]_vars

PassedThrough(from, to, dropped) ==
    \A k \in DOMAIN from : Lower(k) \notin dropped => (k \in DOMAIN to /\ to[k] = from[k])

\* C32: the upstream request has no host or content-length header of the
\* client, the response to the client has no content-encoding,
\* content-length or transfer-encoding header of the upstream, in any
\* casing, and every other header keeps its value (the headers the handler
\* itself sets after the filter apart).
C32_HopHeadersFiltered ==
    (fn \in ProxyHandlers) =>
        /\ (pc \in {"proxy.forwarded", "proxy.responded"}) =>
              /\ \A k \in DOMAIN http.forward_headers :
                    Lower(k) \notin {"host", "content-length"}
              /\ PassedThrough(http.request_headers, http.forward_headers,
                               {"host", "content-length", "traceparent", "x-session-id"})
        /\ (pc = "proxy.responded") =>
              /\ \A k \in DOMAIN http.response_headers :
                    Lower(k) \notin {"content-encoding", "content-length", "transfer-encoding"}
              /\ PassedThrough(http.upstream_headers, http.response_headers,
                               {"content-encoding", "content-length", "transfer-encoding"})

-----------------------------------------------------------------------------
(* loom/traces.py: the TraceManager, and the requests of loom/app.py that  *)
(* use it                                                                  *)

MaxRequests == 3
TraceIds == {"t1", "t2"}

Put(d, k, v) == [x \in DOMAIN d \cup {k} |-> IF x = k THEN v ELSE d[x]]

\* starts a parent span for every call
GetOrCreateAlwaysNew(tm, trace_id) ==
    [tm EXCEPT !.spans = Append(@, [trace_id |-> trace_id, ends |-> 0]),
               !._active = Put(@, trace_id,
                               [parent_span |-> Len(tm.spans) + 1, span_count |-> 0])]

get_or_create_trace(tm, trace_id) ==
    IF trace_id \in DOMAIN tm._active THEN tm
    ELSE [tm EXCEPT !.spans = Append(@, [trace_id |-> trace_id, ends |-> 0]),
                    !._active = Put(@, trace_id,
                                    [parent_span |-> Len(tm.spans) + 1, span_count |-> 0])]

add_span_result(tm, trace_id) ==
    IF trace_id \notin DOMAIN tm._active THEN tm
    ELSE [tm EXCEPT !._active[trace_id].span_count = @ + 1]

\* self._active.pop(trace_id), then parent_span.end()
finalize_trace(tm, trace_id) ==
    IF trace_id \notin DOMAIN tm._active THEN tm
    ELSE [tm EXCEPT !._active = Restrict(@, DOMAIN @ \ {trace_id}),
                    !.spans[tm._active[trace_id].parent_span].ends = @ + 1]

InitTrace ==
    /\ pc = "traces"
    /\ fn = "TraceManager"
    /\ headers = [h \in {"x-loom-pattern", "x-machine-name", "x-session-id", "x-loom-client"} |-> None]
    /\ body = NoBody /\ body0 = NoBody /\ body1 = NoBody
    /\ metadata = None
    /\ store \in OneStore
    /\ fetched = Pending
    /\ system_blocks = <<>>
    /\ order = <<>>
    /\ watch = NoWatch
    /\ http = NoHttp
    /\ trace_manager = NoTraces

Traced(tm) ==
    /\ fn = "TraceManager"
    /\ trace_manager' = tm
    /\ UNCHANGED <<pc, fn, headers, body, body0, body1, metadata, store, fetched,
                   system_blocks, order, http, watch>>

\* loom/app.py 296-304: a request arrives; one without a trace id ("")
\* does not touch the TraceManager
TraceRequest ==
    /\ Len(trace_manager.requests) < MaxRequests
    /\ \E trace_id \in TraceIds \cup {""} :
          LET tm == IF trace_id # "" THEN get_or_create_trace(trace_manager, trace_id)
                    ELSE trace_manager
          IN Traced([tm EXCEPT !.requests = Append(@, [trace_id |-> trace_id,
                                                        state |-> "forwarding",
                                                        returned |-> "nothing"])])

\* the parsed response: a dict with tool_use, a dict without, an empty
\* dict, or None for a body that does not parse
Responses == {"tool_use", "final", "empty", "unparsable"}

\* loom/app.py 383-402 and 430-452: add_span_result, then finalize_trace
\* when the response has no tool_use; both skipped without a trace id or
\* with a falsy response body
Record(tm, r, response) ==
    LET trace_id == tm.requests[r].trace_id
        done == [tm EXCEPT !.requests[r].state = "done", !.requests[r].returned = response]
    IN IF trace_id = "" \/ response \in {"empty", "unparsable"} THEN done
       ELSE LET added == add_span_result(done, trace_id)
                ended == IF response = "final" THEN finalize_trace(added, trace_id) ELSE added
                inactive == trace_id \notin DOMAIN tm._active
            IN [ended EXCEPT
                  !.lost = IF inactive THEN 1 ELSE @,
                  !.noop_changed = @ \/ (inactive /\ (ended._active # tm._active
                                                      \/ ended.spans # tm.spans))]

\* loom/app.py 347-353 raises: the except clause at 464-469
TraceForwardFails(r) ==
    /\ trace_manager.requests[r].state = "forwarding"
    /\ Traced([trace_manager EXCEPT !.requests[r].state = "done",
                                    !.requests[r].returned = "exception"])

\* loom/app.py 358-462
TraceRespond(r) ==
    /\ trace_manager.requests[r].state = "forwarding"
    /\ \E response \in Responses, sse \in BOOLEAN :
          IF sse
          THEN Traced([trace_manager EXCEPT !.requests[r].state = "streaming",
                                            !.requests[r].returned = response])
          ELSE Traced(Record(trace_manager, r, response))

\* loom/app.py 377-405: the stream is exhausted
TraceStreamEnd(r) ==
    /\ trace_manager.requests[r].state = "streaming"
    /\ Traced(Record(trace_manager, r, trace_manager.requests[r].returned))

\* the client leaves: only the finally block (407-411) runs
TraceStreamAbandoned(r) ==
    /\ trace_manager.requests[r].state = "streaming"
    /\ Traced([trace_manager EXCEPT !.requests[r].state = "done",
                                    !.requests[r].returned = "abandoned"])

NextTrace ==
    \/ TraceRequest
    \/ \E r \in 1..Len(trace_manager.requests) : TraceForwardFails(r)
    \/ \E r \in 1..Len(trace_manager.requests) : TraceRespond(r)
    \/ \E r \in 1..Len(trace_manager.requests) : TraceStreamEnd(r)
    \/ \E r \in 1..Len(trace_manager.requests) : TraceStreamAbandoned(r)

SpecTrace == InitTrace /\ [][NextTrace]_vars

OpenSpans(trace_id) ==
    {i \in 1..Len(trace_manager.spans) :
        trace_manager.spans[i].trace_id = trace_id /\ trace_manager.spans[i].ends = 0}

\* C36: every trace id has at most one parent span that is not ended, and
\* it has one exactly when the id is active, the active trace holding that
\* span; no span is ended twice; add_span_result and finalize_trace on an id
\* that is not active change neither the active map nor a span.
C36_OneActiveTracePerId ==
    (fn = "TraceManager") =>
        /\ \A t \in TraceIds :
              /\ Cardinality(OpenSpans(t)) <= 1
              /\ IF t \in DOMAIN trace_manager._active
                 THEN OpenSpans(t) = {trace_manager._active[t].parent_span}
                 ELSE OpenSpans(t) = {}
        /\ \A i \in 1..Len(trace_manager.spans) : trace_manager.spans[i].ends <= 1
        /\ ~trace_manager.noop_changed

C36_Witness ==
    /\ fn = "TraceManager"
    /\ trace_manager.lost > 0
    /\ \E t \in TraceIds :
          /\ Cardinality({r \in 1..Len(trace_manager.requests) :
                             trace_manager.requests[r].trace_id = t}) >= 2
          /\ Cardinality({i \in 1..Len(trace_manager.spans) :
                             trace_manager.spans[i].trace_id = t}) = 1
          /\ t \notin DOMAIN trace_manager._active

RequestsOf(t) ==
    {r \in 1..Len(trace_manager.requests) : trace_manager.requests[r].trace_id = t}

\* C37: when every request of a trace is over and one of them returned a
\* response without tool_use, the trace is no longer active; and no
\* add_span_result found its trace already finalized.
C37_TraceFinalizedNothingLost ==
    (fn = "TraceManager") =>
        /\ trace_manager.lost = 0
        /\ \A t \in TraceIds :
              (/\ \A r \in RequestsOf(t) : trace_manager.requests[r].state = "done"
               /\ \E r \in RequestsOf(t) :
                     trace_manager.requests[r].returned \in {"final", "empty", "unparsable"})
                 => t \notin DOMAIN trace_manager._active

====
